---- MODULE Spec2Model ----
(***************************************************************************)
(* Resumable batch runners of the asset tools: the Blockade skybox         *)
(* generator, the Meshy model generator and the ElevenLabs sound           *)
(* generator.  One process at a time works on an output directory; the     *)
(* directory (progress.json and the artifact files) is the only state that *)
(* survives the process.  A step of the model is a step of the running     *)
(* process, a process interrupt, or the start of the next run.             *)
(***************************************************************************)
EXTENDS Integers, Sequences, FiniteSets, TLC

\* ---------------------------------------------------------------- bounds
\* Number of catalog entries (ids 1..NItems, unique, in catalog order).
NItems == 2
\* Number of process runs on the same output directory.
MaxRuns == 2
\* Longest duration of one status request, in clock ticks.
MaxLatency == 1
\* The `timeout` argument of BlockadeClient.wait_for_completion, in ticks.
BlockadeTimeout == 3
\* The `poll_interval` argument of BlockadeClient.wait_for_completion.
BlockadePollInterval == 2
\* The `timeout` argument of MeshyClient.wait_for_completion, in ticks.
MeshyTimeout == 6
\* Largest value of the Meshy `parallel` setting.
MaxParallel == 2

\* ------------------------------------------------------ program constants
\* process_all(..., delay: int = 2): the Blockade inter-item delay.
BlockadeDelay == 2
\* time.sleep(5) in MeshyClient.wait_for_completion.
MeshyPollSleep == 5
\* REQUEST_DELAY = 60 / REQUESTS_PER_MINUTE.
REQUEST_DELAY == 6
\* generator.process_all(sounds, delay=1.0): the ElevenLabs inter-item delay.
ElevenDelay == 1

Ids == 1..NItems
\* start_from = None
None == 0
\* The parsed catalog: the ids in document order.
Catalog == [k \in 1..NItems |-> k]

VARIABLES
    tool,            \* which runner owns the output directory
    pc,              \* position of the process; "off" when none runs
    run,             \* number of runs started so far
    start_from,      \* the start_from argument of process_all
    parallel,        \* BatchProcessor.parallel (Meshy)
    completed,       \* in-memory completed set
    failed,          \* in-memory failed list
    remaining,       \* the list process_all iterates over
    i,               \* enumerate(remaining, 1) index of the current item
    disk,            \* content of progress.json
    files,           \* artifact file of each id: "none", "partial", "full"
    now,             \* time.time(), counted from the last item's outcome
    start_time,      \* start_time of the current wait_for_completion
    began,           \* the clock when the current item's polling began
    success_count,
    fail_count,
    status,          \* task.status of the current item (Meshy)
    err,             \* the failure that ended the current item, or "none"
    lastStatus,      \* the latest status answer for the current job, or "none"
    log,             \* provider/store operations of the current item, in order
                     \* (consecutive status requests noted once)
    submitted,       \* ids submitted to the provider in this run, in order
    outcome,         \* result of each item in this run: "none", "ok", "failed"
    faulty,          \* ids for which some provider or file step failed in this run
    inflight,        \* ids whose provider job is submitted and not finished
    calls,           \* kinds of provider calls made in this run
    startCompleted,  \* completed list of progress.json when this run started
    prevEnd,         \* how the previous run ended
    prevOutcome,     \* outcome map of the previous run
    prevFiles,       \* artifact files when the previous run ended
    doc,             \* the lines of a batch file given to parse_batch_file
    parsed,          \* the list parse_batch_file returned for doc
    name,            \* the name of a prompt, a sequence of characters
    filename,        \* the filename property computed for name
    procs,           \* BatchProcessor instances running at once on one directory
    writer,          \* the instance whose save wrote progress.json last
    env,             \* what main finds: the API key, the batch file, --dry-run
    progress,        \* the progress.json of the Midjourney helper
    folder           \* the directory of the Suno tracks

\* The state of the runners and of their output directory.
runVars == <<tool, pc, run, start_from, parallel, completed, failed, remaining, i,
             disk, files, now, start_time, began, success_count, fail_count, status,
             err, lastStatus, log, submitted, outcome, faulty, inflight, calls,
             startCompleted, prevEnd, prevOutcome, prevFiles>>
\* The inputs and results of the parsing and naming functions.
textVars == <<doc, parsed, name, filename>>

\* Two Blockade processes started on the same output directory.
twoVars == <<procs, writer>>
\* The files of the two helpers that run no batch.
helperVars == <<progress, folder>>
sideVars == <<textVars, twoVars, env, helperVars>>

vars == <<runVars, sideVars>>

\* No batch file is being parsed and no filename computed.
TextOff ==
    /\ doc = <<>>
    /\ parsed = <<>>
    /\ name = <<>>
    /\ filename = <<>>

\* No second process shares the output directory.
TwoOff ==
    /\ procs = <<>>
    /\ writer = 0

\* The API key is set, the batch file is there, --dry-run is not given.
EnvOk == [key |-> TRUE, catalog |-> TRUE, dry_run |-> FALSE]
EnvOff == env = EnvOk

\* The Midjourney helper has no progress file, there is no directory of
\* tracks.
NoProgress == [kind |-> "absent", completed |-> <<>>, in_progress |-> <<>>]
NoFolder == [exists |-> FALSE, files |-> <<>>]
HelperOff ==
    /\ progress = NoProgress
    /\ folder = NoFolder

SideOff ==
    /\ TextOff
    /\ TwoOff
    /\ EnvOff
    /\ HelperOff

\* ------------------------------------------------------------ progress.json
\* No progress file.
NoFile == [kind |-> "absent", keys |-> {}, completed |-> {}, failed |-> <<>>]
\* open(progress_file, "w") has truncated the file and the document is not
\* (completely) written yet.
Truncated == [kind |-> "partial", keys |-> {}, completed |-> {}, failed |-> <<>>]
\* A complete JSON document with the given keys (the timestamp is left out).
Doc(ks, c, f) == [kind |-> "json", keys |-> ks, completed |-> c, failed |-> f]

\* The completed list a reader of progress.json finds there.
DiskCompleted(d) == IF d.kind = "json" THEN d.completed ELSE {}
\* The ids a reader of progress.json finds in its failed list.
DiskFailed(d) == IF d.kind = "json" THEN {d.failed[k] : k \in 1..Len(d.failed)} ELSE {}

\* Mutant of LoadRaises: a file that does not parse is read as no progress.
LoadRaises_Lenient(d) == FALSE

\* json.load / json.loads raises on a document that is not complete.
LoadRaises(d) == d.kind = "partial"

\* Mutant of B_load_progress: the saved progress is not read back.
B_load_progress_Forget(d) == {}

\* BatchProcessor._load_progress (Blockade), BatchGenerator._load_progress
\* (ElevenLabs): set(data.get("completed", [])), set() without a file.
B_load_progress(d) ==
    IF d.kind = "json" /\ "completed" \in d.keys THEN d.completed ELSE {}

\* Mutant of NotCompleted: the filter condition inverted.
NotCompleted_Inverted(cat, comp) == SelectSeq(cat, LAMBDA p : p \in comp)

\* [p for p in prompts if p.id not in self.completed]
NotCompleted(cat, comp) == SelectSeq(cat, LAMBDA p : p \notin comp)

\* Mutant of B_start_idx: an id that is not found leaves nothing to process.
B_start_idx_NotFoundEnd(rem, sf) ==
    IF \E k \in 1..Len(rem) : rem[k] = sf
    THEN (CHOOSE k \in 1..Len(rem) :
              rem[k] = sf /\ \A j \in 1..(k - 1) : rem[j] # sf) - 1
    ELSE Len(rem)

\* Mutant of B_start_idx: the search result is not used.
B_start_idx_Ignored(rem, sf) == 0

\* next((i for i, p in enumerate(remaining) if p.id == start_from), 0)
B_start_idx(rem, sf) ==
    IF \E k \in 1..Len(rem) : rem[k] = sf
    THEN (CHOOSE k \in 1..Len(rem) :
              rem[k] = sf /\ \A j \in 1..(k - 1) : rem[j] # sf) - 1
    ELSE 0

\* remaining[start_idx:]
SliceFrom(rem, k0) == SubSeq(rem, k0 + 1, Len(rem))

\* while time.time() - start_time < timeout
InBudget(t, t0, timeout) == t - t0 < timeout

\* The log with one more operation; a repeated status request is noted once.
Noted(l, e) == IF l # <<>> /\ l[Len(l)] = e THEN l ELSE Append(l, e)
Range(s) == {s[k] : k \in 1..Len(s)}
NoOutcome == [x \in Ids |-> "none"]
NoFiles == [x \in Ids |-> "none"]
\* The item being processed.
Cur == remaining[i]

\* ---------------------------------------------------------------- Init
Init ==
    /\ tool \in {"blockade", "meshy", "eleven"}
    /\ pc = "off"
    /\ run = 0
    /\ start_from = None
    /\ parallel \in (IF tool = "meshy" THEN 1..MaxParallel ELSE {1})
    /\ completed = {}
    /\ failed = <<>>
    /\ remaining = <<>>
    /\ i = 1
    /\ disk = NoFile
    /\ files = NoFiles
    /\ now = 0
    /\ start_time = 0
    /\ began = 0
    /\ success_count = 0
    /\ fail_count = 0
    /\ status = "pending"
    /\ err = "none"
    /\ lastStatus = "none"
    /\ log = <<>>
    /\ submitted = <<>>
    /\ outcome = NoOutcome
    /\ faulty = {}
    /\ inflight = {}
    /\ calls = {}
    /\ startCompleted = {}
    /\ prevEnd = "none"
    /\ prevOutcome = NoOutcome
    /\ prevFiles = NoFiles
    /\ SideOff

\* What a new process starts from: nothing in memory, the clock at its start,
\* the record of the run before it.
NewRun(how) ==
    /\ run' = run + 1
    /\ now' = 0
    /\ start_time' = 0
    /\ began' = 0
    /\ success_count' = 0
    /\ fail_count' = 0
    /\ err' = "none"
    /\ lastStatus' = "none"
    /\ log' = <<>>
    /\ submitted' = <<>>
    /\ outcome' = NoOutcome
    /\ faulty' = {}
    /\ inflight' = {}
    /\ calls' = {}
    /\ i' = 1
    /\ prevEnd' = how
    /\ prevOutcome' = outcome
    /\ prevFiles' = files

\* pc values with no process running, and how the run that is over ended.
Stopped == {"off", "done", "crashed", "returned", "killed_between", "killed_mid"}
HowEnded ==
    CASE pc = "done" -> "finished"
      [] pc = "crashed" -> "crashed"
      [] pc = "returned" -> "returned"
      [] pc = "killed_between" -> "between"
      [] pc = "killed_mid" -> "mid"
      [] OTHER -> "none"

Running == pc \notin Stopped

\* The clock.  The program reads time.time() only as a difference from
\* start_time, a local of wait_for_completion, so between two items it holds
\* no timestamp: `now` counts the ticks since the last item's outcome (since
\* the process start for the first item).
ItemOver ==
    /\ now' = 0
    /\ start_time' = 0
    /\ began' = 0
    /\ lastStatus' = "none"

\* Mutant of Sleep: no time passes.
Sleep_Skipped(t, d) == t

\* time.sleep(d), and the d ticks a request takes: the clock afterwards.
Sleep(t, d) == t + d

\* Mutant of WaitEntry: start_time taken once, when the process started.
WaitEntry_Stale(t) == 0

\* start_time = time.time() at the entry of wait_for_completion.
WaitEntry(t) == t

memVars == <<completed, failed, remaining, i>>
cfgVars == <<tool, run, start_from, parallel, sideVars>>
\* Blockade has no task record: status stays as it is.
bVars == <<cfgVars, status>>
prevVars == <<startCompleted, prevEnd, prevOutcome, prevFiles>>
countVars == <<success_count, fail_count>>

\* ------------------------------------------------------------- Blockade
\* Results of the three provider operations ("raise": the request raises, a
\* network or HTTP error).
B_CreateResults == {"ok", "raise", "no_id"}
B_StatusResults == {"complete", "error", "abort", "pending", "raise"}
B_DownloadResults == {"ok", "no_url", "raise"}
WriteResults == {"ok", "raise"}

\* main -> BatchProcessor.__init__ (_load_progress) -> process_all up to the loop.
\* What main (Blockade) does before process_all: it returns when the API
\* key is not set, creates the BatchProcessor, which loads progress.json, and
\* returns when the batch file is not there.
B_main(e, d) ==
    IF ~e.key THEN "return"
    ELSE IF LoadRaises(d) THEN "raise"
    ELSE IF ~e.catalog THEN "return"
    ELSE "process"

B_start ==
    /\ tool = "blockade"
    /\ pc \in Stopped
    /\ run < MaxRuns
    /\ B_main(env, disk) # "return"
    /\ NewRun(HowEnded)
    /\ IF LoadRaises(disk)
       THEN /\ pc' = "crashed"
            /\ completed' = {}
            /\ remaining' = <<>>
       ELSE /\ pc' = "loop"
            /\ completed' = B_load_progress(disk)
            /\ LET rem == NotCompleted(Catalog, B_load_progress(disk))
               IN remaining' = IF start_from # None
                               THEN SliceFrom(rem, B_start_idx(rem, start_from))
                               ELSE rem
    /\ failed' = <<>>
    /\ startCompleted' = DiskCompleted(disk)
    /\ UNCHANGED <<tool, start_from, parallel, sideVars, status, disk, files>>

\* The for loop of process_all and the entry of process_single.
B_process_all_loop ==
    /\ tool = "blockade"
    /\ pc = "loop"
    /\ IF i > Len(remaining)
       THEN /\ pc' = "done"
            /\ UNCHANGED <<err, log, success_count>>
       ELSE IF Cur \in completed
       THEN /\ pc' = "after"
            /\ success_count' = success_count + 1
            /\ UNCHANGED <<err, log>>
       ELSE /\ pc' = "create"
            /\ err' = "none"
            /\ log' = <<>>
            /\ UNCHANGED success_count
    /\ UNCHANGED <<bVars, memVars, prevVars, disk, files, now, start_time, began, lastStatus,
                   fail_count, submitted, outcome, faulty, inflight, calls>>

\* Mutant of B_AfterCreate: the next item is started without waiting for
\* the job.
B_AfterCreate_NoWait(r) == IF r = "ok" THEN "after" ELSE "except"

\* Where process_single goes after create_skybox.
B_AfterCreate(r) == IF r = "ok" THEN "wait" ELSE "except"

\* client.create_skybox and the check of the returned id; on success the
\* entry of wait_for_completion (start_time = time.time()).
B_create_skybox ==
    /\ tool = "blockade"
    /\ pc = "create"
    /\ \E r \in B_CreateResults :
          /\ pc' = B_AfterCreate(r)
          /\ inflight' = IF r = "ok" THEN inflight \cup {Cur} ELSE inflight
          /\ err' = IF r = "ok" THEN err ELSE "submit"
          /\ faulty' = IF r = "ok" THEN faulty ELSE faulty \cup {Cur}
    /\ start_time' = WaitEntry(now)
    /\ began' = now
    /\ lastStatus' = "none"
    /\ calls' = calls \cup {"create"}
    /\ submitted' = Append(submitted, Cur)
    /\ log' = Append(log, "create")
    /\ UNCHANGED <<bVars, memVars, prevVars, countVars, disk, files, now,
                   outcome>>

\* The loop condition of wait_for_completion and the TimeoutError after it.
B_wait_for_completion ==
    /\ tool = "blockade"
    /\ pc = "wait"
    /\ IF InBudget(now, start_time, BlockadeTimeout)
       THEN /\ pc' = "status"
            /\ UNCHANGED <<err, faulty>>
       ELSE /\ pc' = "except"
            /\ err' = "timeout"
            /\ faulty' = faulty \cup {Cur}
    /\ UNCHANGED <<bVars, memVars, prevVars, countVars, disk, files, now,
                   start_time, began, lastStatus, log, submitted, outcome, inflight, calls>>

\* Mutant of B_AfterStatus: a complete job is marked without the download.
B_AfterStatus_NoDownload(r) ==
    CASE r = "complete" -> "mark"
      [] r = "pending" -> "wait"
      [] OTHER -> "except"

\* Mutant of B_AfterStatus: the loop goes on after the provider reported a
\* failure.
B_AfterStatus_PollOn(r) ==
    CASE r = "complete" -> "download"
      [] r \in {"pending", "error", "abort"} -> "wait"
      [] OTHER -> "except"

\* Where wait_for_completion goes after one status: return, raise, or sleep
\* and loop.
B_AfterStatus(r) ==
    CASE r = "complete" -> "download"
      [] r = "pending" -> "wait"
      [] OTHER -> "except"

\* One get_skybox_status request, taking l ticks, and what follows it in the
\* loop body: return, raise, or time.sleep(poll_interval).
B_get_skybox_status ==
    /\ tool = "blockade"
    /\ pc = "status"
    /\ \E l \in 0..MaxLatency, r \in B_StatusResults :
          /\ pc' = B_AfterStatus(r)
          /\ now' = IF r = "pending"
                    THEN Sleep(Sleep(now, l), BlockadePollInterval)
                    ELSE Sleep(now, l)
          /\ lastStatus' = r
          /\ err' = CASE r \in {"complete", "pending"} -> err
                      [] r = "raise" -> "poll_error"
                      [] OTHER -> "poll"
          /\ faulty' = IF r \in {"complete", "pending"} THEN faulty
                                                        ELSE faulty \cup {Cur}
    /\ calls' = calls \cup {"status"}
    /\ log' = Noted(log, "status")
    /\ UNCHANGED <<bVars, memVars, prevVars, countVars, disk, files,
                   start_time, began, submitted, outcome, inflight>>

\* download_skybox up to open(filepath, "wb"): the file_url check and the GET.
B_download_skybox ==
    /\ tool = "blockade"
    /\ pc = "download"
    /\ \E r \in B_DownloadResults :
          /\ pc' = IF r = "ok" THEN "write" ELSE "except"
          /\ calls' = IF r = "no_url" THEN calls ELSE calls \cup {"download"}
          /\ files' = IF r = "ok" THEN [files EXCEPT ![Cur] = "partial"]
                                  ELSE files
          /\ err' = IF r = "ok" THEN err ELSE "download"
          /\ faulty' = IF r = "ok" THEN faulty ELSE faulty \cup {Cur}
    /\ UNCHANGED <<bVars, memVars, prevVars, countVars, disk, now,
                   start_time, began, lastStatus, log, submitted, outcome, inflight>>

\* f.write(response.content) and the rest of download_skybox (a failure of
\* the optional HDR download is caught there and changes nothing).
B_download_write ==
    /\ tool = "blockade"
    /\ pc = "write"
    /\ \E r \in WriteResults :
          IF r = "ok"
          THEN /\ pc' = "mark"
               /\ files' = [files EXCEPT ![Cur] = "full"]
               /\ log' = Append(log, "download")
               /\ UNCHANGED <<err, faulty>>
          ELSE /\ pc' = "except"
               /\ err' = "write"
               /\ faulty' = faulty \cup {Cur}
               /\ UNCHANGED <<files, log>>
    /\ UNCHANGED <<bVars, memVars, prevVars, countVars, disk, now,
                   start_time, began, lastStatus, submitted, outcome, inflight, calls>>

\* What open(progress_file, "w") leaves on disk before the document is dumped.
B_OpenForWrite(d) == Truncated

\* self.completed.add(id) and the open(progress_file, "w") of _save_progress.
B_mark_complete ==
    /\ tool = "blockade"
    /\ pc = "mark"
    /\ completed' = completed \cup {Cur}
    /\ disk' = B_OpenForWrite(disk)
    /\ pc' = "dump"
    /\ UNCHANGED <<bVars, failed, remaining, i, prevVars, countVars, files,
                   now, start_time, began, lastStatus, err, log, submitted, outcome, faulty,
                   inflight, calls>>

\* Mutant of B_Document: the set loaded at startup is saved again.
B_Document_Stale(comp) == Doc({"completed", "timestamp"}, startCompleted, <<>>)

\* The document _save_progress writes.
B_Document(comp) == Doc({"completed", "timestamp"}, comp, <<>>)

\* json.dump of _save_progress, the return True of process_single and the
\* success_count += 1 of process_all.
B_save_progress ==
    /\ tool = "blockade"
    /\ pc = "dump"
    /\ disk' = B_Document(completed)
    /\ log' = Append(log, "save")
    /\ outcome' = [outcome EXCEPT ![Cur] = "ok"]
    /\ inflight' = inflight \ {Cur}
    /\ success_count' = success_count + 1
    /\ pc' = "after"
    /\ ItemOver
    /\ UNCHANGED <<bVars, memVars, prevVars, files, fail_count, err,
                   submitted, faulty, calls>>

\* Mutant of B_AfterFailure: the exception leaves process_all.
B_AfterFailure_Abort == "crashed"

\* Where process_all goes after a failed item.
B_AfterFailure == "after"

\* The except clause of process_single (return False) and the
\* fail_count += 1 of process_all.
B_except ==
    /\ tool = "blockade"
    /\ pc = "except"
    /\ outcome' = [outcome EXCEPT ![Cur] = "failed"]
    /\ inflight' = inflight \ {Cur}
    /\ fail_count' = fail_count + 1
    /\ pc' = B_AfterFailure
    /\ ItemOver
    /\ UNCHANGED <<bVars, memVars, prevVars, disk, files, success_count,
                   err, log, submitted, faulty, calls>>

\* if i < len(remaining): time.sleep(delay); then the next iteration.
B_delay ==
    /\ tool = "blockade"
    /\ pc = "after"
    /\ now' = IF i < Len(remaining) THEN Sleep(now, BlockadeDelay) ELSE now
    /\ i' = i + 1
    /\ pc' = "loop"
    /\ UNCHANGED <<bVars, completed, failed, remaining, prevVars, countVars,
                   disk, files, start_time, began, lastStatus, err, log, submitted, outcome,
                   faulty, inflight, calls>>

\* ---------------------------------------------------------------- Meshy
M_CreateResults == {"ok", "raise"}
M_StatusResults == {"SUCCEEDED", "FAILED", "PENDING", "unknown", "raise"}
M_DownloadResults == {"ok", "no_url", "raise"}

\* progress["completed"] / progress["failed"] raise KeyError on a missing key.
M_LoadRaises(d) ==
    \/ LoadRaises(d)
    \/ d.kind = "json" /\ ~({"completed", "failed"} \subseteq d.keys)

\* BatchProcessor.load_progress.
M_load_progress(d) ==
    IF d.kind = "json" THEN [completed |-> d.completed, failed |-> d.failed]
                       ELSE [completed |-> {}, failed |-> <<>>]

\* Mutant of M_models_to_process: start_from is looked for among the items
\* that are not completed.
M_models_to_process_FilterFirst(models, sf, comp) ==
    LET todo == SelectSeq(models, LAMBDA m : m \notin comp)
        first == IF sf = None THEN 1
                 ELSE IF \E k \in 1..Len(todo) : todo[k] = sf
                 THEN CHOOSE k \in 1..Len(todo) : todo[k] = sf
                 ELSE Len(todo) + 1
    IN SubSeq(todo, first, Len(todo))

\* The filter loop of process_all: everything before the first occurrence of
\* start_from is dropped, then the completed ids.
M_models_to_process(models, sf, comp) ==
    LET first == IF sf = None THEN 1
                 ELSE IF \E k \in 1..Len(models) : models[k] = sf
                 THEN CHOOSE k \in 1..Len(models) :
                          models[k] = sf /\ \A j \in 1..(k - 1) : models[j] # sf
                 ELSE Len(models) + 1
    IN SelectSeq(SubSeq(models, first, Len(models)), LAMBDA m : m \notin comp)

\* main -> BatchProcessor.__init__ -> process_all up to the loop.
\* Mutant of M_main: the API key is checked before --dry-run.
M_main_KeyFirst(e) ==
    IF ~e.catalog THEN "raise"
    ELSE IF ~e.key THEN "return"
    ELSE IF e.dry_run THEN "list"
    ELSE "process"

\* What main (Meshy) does before it creates the BatchProcessor: it parses the
\* batch file (read_text raises when it is not there), lists the prompts and
\* returns under --dry-run, returns when the API key is not set.
M_main(e) ==
    IF ~e.catalog THEN "raise"
    ELSE IF e.dry_run THEN "list"
    ELSE IF ~e.key THEN "return"
    ELSE "process"

M_start ==
    /\ tool = "meshy"
    /\ pc \in Stopped
    /\ run < MaxRuns
    /\ M_main(env) = "process"
    /\ NewRun(HowEnded)
    /\ IF M_LoadRaises(disk)
       THEN /\ pc' = "crashed"
            /\ completed' = {}
            /\ failed' = <<>>
            /\ remaining' = <<>>
       ELSE /\ pc' = "loop"
            /\ completed' = M_load_progress(disk).completed
            /\ failed' = M_load_progress(disk).failed
            /\ remaining' = M_models_to_process(
                   Catalog, start_from, M_load_progress(disk).completed)
    /\ status' = "pending"
    /\ startCompleted' = DiskCompleted(disk)
    /\ UNCHANGED <<tool, start_from, parallel, sideVars, disk, files>>

\* Mutant of M_exists: the output file is never found.
M_exists_Never(f) == FALSE

\* Mutant of M_exists: the output file is taken to exist without a look.
M_exists_Always(f) == TRUE

\* output_path.exists()
M_exists(f) == f # "none"

\* The for loop of process_all and the entry of process_model (the check of
\* the output file).
M_process_all_loop ==
    /\ tool = "meshy"
    /\ pc = "loop"
    /\ IF i > Len(remaining)
       THEN /\ pc' = "done"
            /\ UNCHANGED <<status, outcome>>
       ELSE IF M_exists(files[Cur])
       THEN /\ pc' = "record"
            /\ status' = "completed"
            /\ outcome' = [outcome EXCEPT ![Cur] = "ok"]
       ELSE /\ pc' = "create"
            /\ status' = "pending"
            /\ UNCHANGED outcome
    /\ err' = "none"
    /\ log' = <<>>
    /\ UNCHANGED <<cfgVars, memVars, prevVars, countVars, disk, files, now,
                   start_time, began, lastStatus, submitted, faulty, inflight, calls>>

\* Where process_model goes after create_text_to_3d.
M_AfterCreate(r) == IF r = "ok" THEN "wait" ELSE "except"

\* client.create_text_to_3d; on success task.status = "processing" and the
\* entry of wait_for_completion (start_time = time.time()).
M_create_text_to_3d ==
    /\ tool = "meshy"
    /\ pc = "create"
    /\ \E r \in M_CreateResults :
          /\ pc' = M_AfterCreate(r)
          /\ status' = IF r = "ok" THEN "processing" ELSE status
          /\ inflight' = IF r = "ok" THEN inflight \cup {Cur} ELSE inflight
          /\ err' = IF r = "ok" THEN err ELSE "submit"
          /\ faulty' = IF r = "ok" THEN faulty ELSE faulty \cup {Cur}
    /\ start_time' = WaitEntry(now)
    /\ began' = now
    /\ lastStatus' = "none"
    /\ calls' = calls \cup {"create"}
    /\ submitted' = Append(submitted, Cur)
    /\ log' = Append(log, "create")
    /\ UNCHANGED <<cfgVars, memVars, prevVars, countVars, disk, files, now,
                   outcome>>

\* The loop condition of wait_for_completion and the TimeoutError after it.
M_wait_for_completion ==
    /\ tool = "meshy"
    /\ pc = "wait"
    /\ IF InBudget(now, start_time, MeshyTimeout)
       THEN /\ pc' = "status"
            /\ UNCHANGED <<err, faulty>>
       ELSE /\ pc' = "except"
            /\ err' = "timeout"
            /\ faulty' = faulty \cup {Cur}
    /\ UNCHANGED <<cfgVars, memVars, prevVars, countVars, status, disk, files,
                   now, start_time, began, lastStatus, log, submitted, outcome, inflight, calls>>

\* Where wait_for_completion goes after one status.
M_AfterStatus(r) ==
    CASE r = "SUCCEEDED" -> "download"
      [] r = "PENDING" -> "wait"
      [] OTHER -> "except"

\* One get_task_status request, taking l ticks, and what follows it in the
\* loop body: return, raise, or time.sleep(5).
M_get_task_status ==
    /\ tool = "meshy"
    /\ pc = "status"
    /\ \E l \in 0..MaxLatency, r \in M_StatusResults :
          /\ pc' = M_AfterStatus(r)
          /\ now' = IF r = "PENDING" THEN Sleep(Sleep(now, l), MeshyPollSleep)
                                     ELSE Sleep(now, l)
          /\ lastStatus' = r
          /\ err' = CASE r \in {"SUCCEEDED", "PENDING"} -> err
                      [] r = "raise" -> "poll_error"
                      [] OTHER -> "poll"
          /\ faulty' = IF r \in {"SUCCEEDED", "PENDING"} THEN faulty
                                                        ELSE faulty \cup {Cur}
    /\ calls' = calls \cup {"status"}
    /\ log' = Noted(log, "status")
    /\ UNCHANGED <<cfgVars, memVars, prevVars, countVars, status, disk, files,
                   start_time, began, submitted, outcome, inflight>>

\* The model_urls["glb"] check of process_model and download_model up to
\* open(output_path, 'wb').
M_download_model ==
    /\ tool = "meshy"
    /\ pc = "download"
    /\ \E r \in M_DownloadResults :
          /\ pc' = IF r = "ok" THEN "write" ELSE "except"
          /\ calls' = IF r = "no_url" THEN calls ELSE calls \cup {"download"}
          /\ files' = IF r = "ok" THEN [files EXCEPT ![Cur] = "partial"]
                                  ELSE files
          /\ err' = IF r = "ok" THEN err ELSE "download"
          /\ faulty' = IF r = "ok" THEN faulty ELSE faulty \cup {Cur}
    /\ UNCHANGED <<cfgVars, memVars, prevVars, countVars, status, disk, now,
                   start_time, began, lastStatus, log, submitted, outcome, inflight>>

\* The chunk loop of download_model, then task.status = "completed".
M_download_write ==
    /\ tool = "meshy"
    /\ pc = "write"
    /\ \E r \in WriteResults :
          IF r = "ok"
          THEN /\ pc' = "sleep"
               /\ files' = [files EXCEPT ![Cur] = "full"]
               /\ log' = Append(log, "download")
               /\ status' = "completed"
               /\ outcome' = [outcome EXCEPT ![Cur] = "ok"]
               /\ inflight' = inflight \ {Cur}
               /\ ItemOver
               /\ UNCHANGED <<err, faulty>>
          ELSE /\ pc' = "except"
               /\ err' = "write"
               /\ faulty' = faulty \cup {Cur}
               /\ UNCHANGED <<files, log, status, outcome, inflight, now,
                              start_time, began, lastStatus>>
    /\ UNCHANGED <<cfgVars, memVars, prevVars, countVars, disk, submitted,
                   calls>>

\* Where process_model goes after a failed item.
M_AfterFailure == "sleep"

\* The except clause of process_model, and its else branch
\* ("No GLB URL in response"): task.status = "failed".
M_except ==
    /\ tool = "meshy"
    /\ pc = "except"
    /\ status' = "failed"
    /\ outcome' = [outcome EXCEPT ![Cur] = "failed"]
    /\ inflight' = inflight \ {Cur}
    /\ pc' = M_AfterFailure
    /\ ItemOver
    /\ UNCHANGED <<cfgVars, memVars, prevVars, countVars, disk, files, err,
                   log, submitted, faulty, calls>>

\* time.sleep(REQUEST_DELAY) and return task.
M_rate_limit ==
    /\ tool = "meshy"
    /\ pc = "sleep"
    /\ now' = Sleep(now, REQUEST_DELAY)
    /\ pc' = "record"
    /\ UNCHANGED <<cfgVars, memVars, prevVars, countVars, status, disk, files,
                   start_time, began, lastStatus, err, log, submitted, outcome, faulty, inflight,
                   calls>>

\* What write_text leaves on disk before the document is written.
M_OpenForWrite(d) == Truncated

\* completed.add / failed.append of process_all and the start of
\* save_progress (write_text opens the file for writing).
M_record ==
    /\ tool = "meshy"
    /\ pc = "record"
    /\ IF status = "completed"
       THEN /\ completed' = completed \cup {Cur}
            /\ UNCHANGED failed
       ELSE /\ failed' = Append(failed, Cur)
            /\ UNCHANGED completed
    /\ disk' = M_OpenForWrite(disk)
    /\ pc' = "dump"
    /\ UNCHANGED <<cfgVars, remaining, i, prevVars, countVars, status, files,
                   now, start_time, began, lastStatus, err, log, submitted, outcome, faulty,
                   inflight, calls>>

\* The document save_progress writes.
M_Document(comp, fl) == Doc({"completed", "failed", "timestamp"}, comp, fl)

\* The write of save_progress, then the next iteration.
M_save_progress ==
    /\ tool = "meshy"
    /\ pc = "dump"
    /\ disk' = M_Document(completed, failed)
    /\ log' = Append(log, "save")
    /\ i' = i + 1
    /\ pc' = "loop"
    /\ UNCHANGED <<cfgVars, completed, failed, remaining, prevVars, countVars,
                   status, files, now, start_time, began, lastStatus, err, submitted, outcome,
                   faulty, inflight, calls>>

MeshyNext ==
    \/ M_start
    \/ M_process_all_loop
    \/ M_create_text_to_3d
    \/ M_wait_for_completion
    \/ M_get_task_status
    \/ M_download_model
    \/ M_download_write
    \/ M_except
    \/ M_rate_limit
    \/ M_record
    \/ M_save_progress

\* ----------------------------------------------------------- ElevenLabs
E_GenerateResults == {"ok", "raise"}

\* main -> BatchGenerator.__init__ (_load_progress, self.failed = []) ->
\* process_all up to the loop.
E_start ==
    /\ tool = "eleven"
    /\ pc \in Stopped
    /\ run < MaxRuns
    /\ NewRun(HowEnded)
    /\ IF LoadRaises(disk)
       THEN /\ pc' = "crashed"
            /\ completed' = {}
            /\ remaining' = <<>>
       ELSE /\ pc' = "loop"
            /\ completed' = B_load_progress(disk)
            /\ remaining' = NotCompleted(Catalog, B_load_progress(disk))
    /\ failed' = <<>>
    /\ status' = "pending"
    /\ startCompleted' = DiskCompleted(disk)
    /\ UNCHANGED <<tool, start_from, parallel, sideVars, disk, files>>

\* What open(progress_file, "w") leaves on disk before the document is dumped.
E_OpenForWrite(d) == Truncated

\* The for loop of process_all and the entry of generate_sound; after the
\* loop, the open(progress_file, "w") of the final _save_progress.
E_process_all_loop ==
    /\ tool = "eleven"
    /\ pc = "loop"
    /\ IF i > Len(remaining)
       THEN /\ \E r \in WriteResults :
                  IF r = "ok"
                  THEN /\ pc' = "final_dump"
                       /\ disk' = E_OpenForWrite(disk)
                  ELSE /\ pc' = "crashed"
                       /\ disk' = disk
            /\ UNCHANGED <<err, log, success_count>>
       ELSE IF Cur \in completed
       THEN /\ pc' = "after"
            /\ success_count' = success_count + 1
            /\ UNCHANGED <<err, log, disk>>
       ELSE /\ pc' = "create"
            /\ err' = "none"
            /\ log' = <<>>
            /\ UNCHANGED <<success_count, disk>>
    /\ UNCHANGED <<cfgVars, memVars, prevVars, status, files, now, start_time, began, lastStatus,
                   fail_count, submitted, outcome, faulty, inflight, calls>>

\* client.generate_sound and open(output_path, "wb").
E_generate_sound ==
    /\ tool = "eleven"
    /\ pc = "create"
    /\ \E r \in E_GenerateResults :
          /\ pc' = IF r = "ok" THEN "write" ELSE "except"
          /\ files' = IF r = "ok" THEN [files EXCEPT ![Cur] = "partial"]
                                  ELSE files
          /\ err' = IF r = "ok" THEN err ELSE "submit"
          /\ faulty' = IF r = "ok" THEN faulty ELSE faulty \cup {Cur}
    /\ calls' = calls \cup {"create"}
    /\ submitted' = Append(submitted, Cur)
    /\ log' = Append(log, "create")
    /\ UNCHANGED <<cfgVars, memVars, prevVars, countVars, status, disk, now,
                   start_time, began, lastStatus, outcome, inflight>>

\* f.write(audio_data).
E_write ==
    /\ tool = "eleven"
    /\ pc = "write"
    /\ \E r \in WriteResults :
          IF r = "ok"
          THEN /\ pc' = "mark"
               /\ files' = [files EXCEPT ![Cur] = "full"]
               /\ log' = Append(log, "download")
               /\ UNCHANGED <<err, faulty>>
          ELSE /\ pc' = "except"
               /\ err' = "write"
               /\ faulty' = faulty \cup {Cur}
               /\ UNCHANGED <<files, log>>
    /\ UNCHANGED <<cfgVars, memVars, prevVars, countVars, status, disk, now,
                   start_time, began, lastStatus, submitted, outcome, inflight, calls>>

\* self.completed.add(id) and the open(progress_file, "w") of _save_progress,
\* inside the try of generate_sound: an error of the open is caught there.
E_mark_complete ==
    /\ tool = "eleven"
    /\ pc = "mark"
    /\ completed' = completed \cup {Cur}
    /\ \E r \in WriteResults :
          IF r = "ok"
          THEN /\ disk' = E_OpenForWrite(disk)
               /\ pc' = "dump"
               /\ UNCHANGED <<err, faulty>>
          ELSE /\ disk' = disk
               /\ pc' = "except"
               /\ err' = "save"
               /\ faulty' = faulty \cup {Cur}
    /\ UNCHANGED <<cfgVars, failed, remaining, i, prevVars, countVars, status,
                   files, now, start_time, began, lastStatus, log, submitted, outcome,
                   inflight, calls>>

\* The document _save_progress writes (an entry of `failed` is
\* {"id", "error"}; the id stands for it).
E_Document(comp, fl) == Doc({"completed", "failed", "timestamp"}, comp, fl)

\* json.dump of _save_progress, the return True of generate_sound and the
\* success_count += 1 of process_all.
E_save_progress ==
    /\ tool = "eleven"
    /\ pc = "dump"
    /\ \E r \in WriteResults :
          IF r = "ok"
          THEN /\ disk' = E_Document(completed, failed)
               /\ log' = Append(log, "save")
               /\ outcome' = [outcome EXCEPT ![Cur] = "ok"]
               /\ success_count' = success_count + 1
               /\ pc' = "after"
               /\ UNCHANGED <<err, faulty>>
          ELSE /\ disk' = disk
               /\ pc' = "except"
               /\ err' = "save"
               /\ faulty' = faulty \cup {Cur}
               /\ UNCHANGED <<log, outcome, success_count>>
    /\ UNCHANGED <<cfgVars, memVars, prevVars, status, files, now, start_time, began, lastStatus,
                   fail_count, submitted, inflight, calls>>

\* The except clauses of generate_sound: self.failed.append, return False;
\* and the fail_count += 1 of process_all.
E_except ==
    /\ tool = "eleven"
    /\ pc = "except"
    /\ failed' = Append(failed, Cur)
    /\ outcome' = [outcome EXCEPT ![Cur] = "failed"]
    /\ fail_count' = fail_count + 1
    /\ pc' = "after"
    /\ UNCHANGED <<cfgVars, completed, remaining, i, prevVars, status, disk,
                   files, now, start_time, began, lastStatus, success_count, err, log, submitted,
                   faulty, inflight, calls>>

\* if i < len(remaining): time.sleep(delay); then the next iteration.
E_delay ==
    /\ tool = "eleven"
    /\ pc = "after"
    /\ now' = IF i < Len(remaining) THEN Sleep(now, ElevenDelay) ELSE now
    /\ i' = i + 1
    /\ pc' = "loop"
    /\ UNCHANGED <<cfgVars, completed, failed, remaining, prevVars, countVars,
                   status, disk, files, start_time, began, lastStatus, err, log, submitted,
                   outcome, faulty, inflight, calls>>

\* json.dump of the final _save_progress of process_all.
E_final_save ==
    /\ tool = "eleven"
    /\ pc = "final_dump"
    /\ \E r \in WriteResults :
          IF r = "ok"
          THEN /\ disk' = E_Document(completed, failed)
               /\ pc' = "done"
          ELSE /\ disk' = disk
               /\ pc' = "crashed"
    /\ UNCHANGED <<cfgVars, memVars, prevVars, countVars, status, files, now,
                   start_time, began, lastStatus, err, log, submitted, outcome, faulty, inflight,
                   calls>>

ElevenNext ==
    \/ E_start
    \/ E_process_all_loop
    \/ E_generate_sound
    \/ E_write
    \/ E_mark_complete
    \/ E_save_progress
    \/ E_except
    \/ E_delay
    \/ E_final_save

\* A process interrupt (KeyboardInterrupt, kill): the process is gone with
\* its memory; the output directory stays as it is.  (remaining, i, outcome
\* and faulty are kept as the record of where the process was interrupted.)
Interrupt ==
    /\ Running
    /\ pc' = IF pc \in {"loop", "after"} THEN "killed_between" ELSE "killed_mid"
    /\ completed' = {}
    /\ failed' = <<>>
    /\ inflight' = {}
    /\ now' = 0
    /\ start_time' = 0
    /\ began' = 0
    /\ success_count' = 0
    /\ fail_count' = 0
    /\ err' = "none"
    /\ lastStatus' = "none"
    /\ log' = <<>>
    /\ submitted' = <<>>
    /\ calls' = {}
    /\ status' = "pending"
    /\ UNCHANGED <<cfgVars, prevVars, disk, files, outcome, faulty,
                   remaining, i>>

BlockadeNext ==
    \/ B_start
    \/ B_process_all_loop
    \/ B_create_skybox
    \/ B_wait_for_completion
    \/ B_get_skybox_status
    \/ B_download_skybox
    \/ B_download_write
    \/ B_mark_complete
    \/ B_save_progress
    \/ B_except
    \/ B_delay

Next ==
    \/ BlockadeNext
    \/ MeshyNext
    \/ ElevenNext
    \/ Interrupt

Spec == Init /\ [][Next]_vars

\* Well-formed progress files a run may find that this tool's own saves did
\* not write: any of the keys may be missing (a file written by hand or by
\* another version of the tool).
FoundDocs ==
    {Doc(ks \cup {"timestamp"}, c, f) :
        ks \in SUBSET {"completed", "failed"},
        c \in SUBSET Ids,
        f \in {<<>>} \cup {<<x>> : x \in Ids}}

\* The first run finds such a progress file, with the artifacts of the ids it
\* lists as completed.
LoadInit ==
    /\ tool \in {"blockade", "meshy", "eleven"}
    /\ pc = "off"
    /\ run = 0
    /\ start_from = None
    /\ parallel = 1
    /\ completed = {}
    /\ failed = <<>>
    /\ remaining = <<>>
    /\ i = 1
    /\ disk \in {d \in FoundDocs :
                    /\ "completed" \notin d.keys => d.completed = {}
                    /\ "failed" \notin d.keys => d.failed = <<>>
                    /\ Range(d.failed) \cap d.completed = {}}
    /\ files = [x \in Ids |-> IF x \in disk.completed THEN "full" ELSE "none"]
    /\ now = 0
    /\ start_time = 0
    /\ began = 0
    /\ success_count = 0
    /\ fail_count = 0
    /\ status = "pending"
    /\ err = "none"
    /\ lastStatus = "none"
    /\ log = <<>>
    /\ submitted = <<>>
    /\ outcome = NoOutcome
    /\ faulty = {}
    /\ inflight = {}
    /\ calls = {}
    /\ startCompleted = {}
    /\ prevEnd = "none"
    /\ prevOutcome = NoOutcome
    /\ prevFiles = NoFiles
    /\ SideOff

LoadSpec == LoadInit /\ [][Next]_vars

\* An id that no catalog entry has.
UnknownId == NItems + 1

\* The runs of the Blockade and Meshy runners are given a start_from id: the
\* id of a catalog entry or an unknown one (the ElevenLabs runner has no such
\* argument).
StartFromInit ==
    /\ tool \in {"blockade", "meshy", "eleven"}
    /\ pc = "off"
    /\ run = 0
    /\ start_from \in (IF tool = "eleven" THEN {None} ELSE Ids \cup {UnknownId})
    /\ parallel = 1
    /\ completed = {}
    /\ failed = <<>>
    /\ remaining = <<>>
    /\ i = 1
    /\ disk = NoFile
    /\ files = NoFiles
    /\ now = 0
    /\ start_time = 0
    /\ began = 0
    /\ success_count = 0
    /\ fail_count = 0
    /\ status = "pending"
    /\ err = "none"
    /\ lastStatus = "none"
    /\ log = <<>>
    /\ submitted = <<>>
    /\ outcome = NoOutcome
    /\ faulty = {}
    /\ inflight = {}
    /\ calls = {}
    /\ startCompleted = {}
    /\ prevEnd = "none"
    /\ prevOutcome = NoOutcome
    /\ prevFiles = NoFiles
    /\ SideOff

StartFromSpec == StartFromInit /\ [][Next]_vars

\* The runs without process interrupts, every process step eventually taken.
RunNext ==
    \/ BlockadeNext
    \/ MeshyNext
    \/ ElevenNext

LiveSpec == Init /\ [][RunNext]_vars /\ WF_vars(RunNext)

\* ------------------------------------------------------ batch file parsing
\* The longest batch file parsed.
MaxLines == 6

\* The runners are idle: nothing is in memory or on disk and no run has begun.
RunOff ==
    /\ run = 0
    /\ start_from = None
    /\ parallel = 1
    /\ completed = {}
    /\ failed = <<>>
    /\ remaining = <<>>
    /\ i = 1
    /\ disk = NoFile
    /\ files = NoFiles
    /\ now = 0
    /\ start_time = 0
    /\ began = 0
    /\ success_count = 0
    /\ fail_count = 0
    /\ status = "pending"
    /\ err = "none"
    /\ lastStatus = "none"
    /\ log = <<>>
    /\ submitted = <<>>
    /\ outcome = NoOutcome
    /\ faulty = {}
    /\ inflight = {}
    /\ calls = {}
    /\ startCompleted = {}
    /\ prevEnd = "none"
    /\ prevOutcome = NoOutcome
    /\ prevFiles = NoFiles

\* The kinds of line a batch file is made of: a section header matching
\* section_pattern ("S"), a category header matching category_pattern ("C"),
\* an entry header matching id_pattern ("E"), a line starting with three
\* backticks ("F", spelt "~~~"), and lines of text: plain ("x"), empty (""), padded with
\* spaces ("pad"), and naming the style in lower ("l") or upper ("L") case.
HeaderLines == {"S", "C", "E"}
StructureLines == HeaderLines \cup {"F", "x"}
PayloadLines == {"F", "x", "", "pad", "l", "L"}

\* The characters of a line.  One character stands for the words
\* "low-poly stylized" ("l"), one for the same words in capitals ("L").
Text(line) ==
    CASE line = "S" -> <<"#">>
      [] line = "C" -> <<"#", "#">>
      [] line = "E" -> <<"#", "#", "#">>
      [] line = "F" -> <<"~", "~", "~">>
      [] line = "x" -> <<"x">>
      [] line = "" -> <<>>
      [] line = "pad" -> <<" ", "x", " ">>
      [] line = "l" -> <<"l">>
      [] line = "L" -> <<"L">>

GLOBAL_STYLE == <<",", " ", "l">>
Whitespace == {" ", "\n"}

\* sep.join(lines)
RECURSIVE join(_, _)
join(sep, lines) ==
    IF lines = <<>> THEN <<>>
    ELSE IF Len(lines) = 1 THEN Text(lines[1])
    ELSE Text(Head(lines)) \o <<sep>> \o join(sep, Tail(lines))

\* str.strip()
RECURSIVE lstrip(_)
lstrip(s) ==
    IF s # <<>> /\ Head(s) \in Whitespace THEN lstrip(Tail(s)) ELSE s
RECURSIVE rstrip(_)
rstrip(s) ==
    IF s # <<>> /\ s[Len(s)] \in Whitespace THEN rstrip(SubSeq(s, 1, Len(s) - 1)) ELSE s
strip_LeftOnly(s) == lstrip(s)
strip(s) == rstrip(lstrip(s))

\* str.lower()
lower(s) == [j \in DOMAIN s |-> IF s[j] = "L" THEN "l" ELSE s[j]]

\* "Add global style if not already present"
add_global_style(prompt_text) ==
    IF \E j \in DOMAIN prompt_text : lower(prompt_text)[j] = "l"
    THEN prompt_text
    ELSE prompt_text \o GLOBAL_STYLE

\* The index of the first line from k on that starts with three backticks,
\* Len(d) + 1 when there is none: where the loop that looks for the prompt
\* in the following lines leaves i.
RECURSIVE skip_to_fence(_, _)
skip_to_fence(d, k) ==
    IF k <= Len(d) /\ d[k] # "F" THEN skip_to_fence(d, k + 1) ELSE k

\* Mutant of prompt_text: the block ends at the first header line in it.
prompt_text_UntilHeader(t, d, f, g) ==
    LET stops == {j \in (f + 1)..(g - 1) : d[j] \in HeaderLines}
        h == IF stops = {} THEN g ELSE CHOOSE j \in stops : \A m \in stops : j <= m
    IN  IF t = "meshy"
        THEN add_global_style(strip(join("\n", SubSeq(d, f + 1, h - 1))))
        ELSE strip(join(" ", SubSeq(d, f + 1, h - 1)))

\* prompt_text of the block whose lines are d[f+1 .. g-1].
prompt_text(t, d, f, g) ==
    IF t = "meshy"
    THEN add_global_style(strip(join("\n", SubSeq(d, f + 1, g - 1))))
    ELSE strip(join(" ", SubSeq(d, f + 1, g - 1)))

\* The while loop of parse_batch_file from line k on, with current_section sec,
\* current_category cat and the prompts found so far.  A header stands for
\* its own text: the section number, the category name and the entry's id and
\* name are the number of the line they are read from (0: none read so far).
RECURSIVE parse_loop(_, _, _, _, _, _)
parse_loop(t, d, k, sec, cat, prompts) ==
    IF k > Len(d) THEN prompts
    ELSE CASE d[k] = "S" -> parse_loop(t, d, k + 1, k, cat, prompts)
           [] d[k] = "C" -> parse_loop(t, d, k + 1, sec, k, prompts)
           [] d[k] = "E" ->
                LET f == skip_to_fence(d, k + 1)
                    g == skip_to_fence(d, f + 1)
                IN  IF f > Len(d) THEN prompts
                    ELSE parse_loop(t, d, g + 1, sec, cat,
                             Append(prompts, [id |-> k, name |-> k,
                                              prompt |-> prompt_text(t, d, f, g),
                                              section |-> sec, category |-> cat]))
           [] OTHER -> parse_loop(t, d, k + 1, sec, cat, prompts)

parse_batch_file(t, d) == parse_loop(t, d, 1, 0, 0, <<>>)

\* The sequences of at most n elements of S.
SeqsUpTo(S, n) == UNION {[1..m -> S] : m \in 0..n}

\* A batch file is about to be parsed: any file of headers, fences and text,
\* or an entry header followed by any lines of text and fences.
ParseInit ==
    /\ tool \in {"meshy", "midjourney"}
    /\ pc = "parse"
    /\ RunOff
    /\ doc \in SeqsUpTo(StructureLines, MaxLines)
                 \cup {<<"E">> \o s : s \in SeqsUpTo(PayloadLines, MaxLines - 1)}
    /\ parsed = <<>>
    /\ name = <<>>
    /\ filename = <<>>
    /\ TwoOff
    /\ EnvOff
    /\ HelperOff

Parse ==
    /\ pc = "parse"
    /\ parsed' = parse_batch_file(tool, doc)
    /\ pc' = "parsed"
    /\ UNCHANGED <<tool, run, start_from, parallel, doc, name, filename, twoVars, env, helperVars>>
    /\ UNCHANGED <<memVars, disk, files, now, start_time, began, countVars, status, err,
                   lastStatus, log, submitted, outcome, faulty, inflight, calls,
                   startCompleted, prevVars>>

ParseSpec == ParseInit /\ [][Parse]_vars

\* ------------------------------------------------------------- file names
\* The longest name given to the filename property.
MaxName == 3

\* The characters of a name: a letter, a digit, an underscore, a hyphen, a
\* space, a tab and a parenthesis.
NameChars == {"a", "1", "_", "-", " ", "\t", "("}
\* The characters matched by \w and by \s in a regular expression.
WordChars == {"a", "1", "_"}
SpaceChars == {" ", "\t"}

\* [^\w\s-]: the characters re.sub removes.
Removed(c) == c \notin WordChars \cup SpaceChars \cup {"-"}
Kept(c) == ~Removed(c)

\* re.sub(r'[^\w\s-]', '', s)
re_sub(s) == SelectSeq(s, Kept)
\* s.replace(' ', '_')
replace(s) == [j \in DOMAIN s |-> IF s[j] = " " THEN "_" ELSE s[j]]

\* The filename property of the prompt with the given id and name: the id,
\* an underscore, safe_name and, for MJPrompt, the extension.
filename_of(t, id, nm) ==
    <<id, "_">> \o replace(re_sub(nm)) \o (IF t = "midjourney" THEN <<".png">> ELSE <<>>)

\* A prompt read from a batch file: its name is the second group of
\* id_pattern, never empty, which the Midjourney parser strips.
NameInit ==
    /\ tool \in {"meshy", "midjourney"}
    /\ pc = "name"
    /\ RunOff
    /\ doc = <<>>
    /\ parsed = <<>>
    /\ name \in {s \in SeqsUpTo(NameChars, MaxName) :
                    IF tool = "meshy" THEN s # <<>>
                    ELSE s = <<>> \/ (s[1] \notin SpaceChars /\ s[Len(s)] \notin SpaceChars)}
    /\ filename = <<>>
    /\ TwoOff
    /\ EnvOff
    /\ HelperOff

Filename ==
    /\ pc = "name"
    /\ filename' = filename_of(tool, "F01", name)
    /\ pc' = "named"
    /\ UNCHANGED <<tool, run, start_from, parallel, doc, parsed, name, twoVars, env, helperVars>>
    /\ UNCHANGED <<memVars, disk, files, now, start_time, began, countVars, status, err,
                   lastStatus, log, submitted, outcome, faulty, inflight, calls,
                   startCompleted, prevVars>>

NameSpec == NameInit /\ [][Filename]_vars

\* ------------------------------------- two processes on one directory
\* Two BatchProcessor instances (Blockade), each in a process of its own,
\* started on the same output directory.  Each has its own memory; they
\* share progress.json and the artifact files.  What an instance does for an
\* item up to the end of its download is one step here, its save two (the
\* open that truncates, the dump), since the file is what they share.
Instances == {1, 2}

NewProc == [pc |-> "off", completed |-> {}, remaining |-> <<>>, i |-> 1,
            loaded |-> {}, own |-> {}]

TwoInit ==
    /\ tool = "blockade"
    /\ pc = "two"
    /\ RunOff
    /\ TextOff
    /\ EnvOff
    /\ HelperOff
    /\ procs = [p \in Instances |-> NewProc]
    /\ writer = 0

\* The item instance p is at.
CurOf(p) == procs[p].remaining[procs[p].i]

\* BatchProcessor.__init__ (self.completed = self._load_progress()) and the
\* remaining list of process_all; json.load raises on a file another
\* instance has truncated and not written yet.
T_start(p) ==
    /\ procs[p].pc = "off"
    /\ procs' = [procs EXCEPT ![p] =
                    IF LoadRaises(disk) THEN [@ EXCEPT !.pc = "crashed"]
                    ELSE [@ EXCEPT !.pc = "loop",
                                   !.completed = B_load_progress(disk),
                                   !.loaded = B_load_progress(disk),
                                   !.remaining = NotCompleted(Catalog, B_load_progress(disk))]]
    /\ UNCHANGED <<runVars, textVars, env, helperVars, writer>>

\* process_single up to the download: the artifact is written, or a step
\* raised and the for loop goes on to the next item.
T_process_single(p) ==
    /\ procs[p].pc = "loop"
    /\ procs[p].i <= Len(procs[p].remaining)
    /\ \E ok \in BOOLEAN :
          IF ok
          THEN /\ files' = [files EXCEPT ![CurOf(p)] = "full"]
               /\ procs' = [procs EXCEPT ![p].pc = "mark"]
          ELSE /\ files' = files
               /\ procs' = [procs EXCEPT ![p].i = @ + 1]
    /\ UNCHANGED <<tool, pc, run, start_from, parallel, memVars, disk, now, start_time,
                   began, countVars, status, err, lastStatus, log, submitted, outcome,
                   faulty, inflight, calls, prevVars, textVars, env, helperVars, writer>>

\* Mutant of T_completed_add: the ids another instance saved are merged in.
T_completed_add_Reload(comp, x, d) == comp \cup {x} \cup DiskCompleted(d)

\* self.completed.add(id): the set in the memory of the instance, whatever
\* progress.json (d) holds by now.
T_completed_add(comp, x, d) == comp \cup {x}

\* self.completed.add(id) and the open(progress_file, "w") of _save_progress.
T_mark_complete(p) ==
    /\ procs[p].pc = "mark"
    /\ procs' = [procs EXCEPT ![p].completed = T_completed_add(@, CurOf(p), disk),
                              ![p].own = @ \cup {CurOf(p)},
                              ![p].pc = "dump"]
    /\ disk' = B_OpenForWrite(disk)
    /\ UNCHANGED <<tool, pc, run, start_from, parallel, memVars, files, now, start_time,
                   began, countVars, status, err, lastStatus, log, submitted, outcome,
                   faulty, inflight, calls, prevVars, textVars, env, helperVars, writer>>

\* json.dump of _save_progress and the return to the for loop.
T_save_progress(p) ==
    /\ procs[p].pc = "dump"
    /\ disk' = B_Document(procs[p].completed)
    /\ writer' = p
    /\ procs' = [procs EXCEPT ![p].pc = "loop", ![p].i = @ + 1]
    /\ UNCHANGED <<tool, pc, run, start_from, parallel, memVars, files, now, start_time,
                   began, countVars, status, err, lastStatus, log, submitted, outcome,
                   faulty, inflight, calls, prevVars, textVars, env, helperVars>>

\* The for loop of process_all is over.
T_finish(p) ==
    /\ procs[p].pc = "loop"
    /\ procs[p].i > Len(procs[p].remaining)
    /\ procs' = [procs EXCEPT ![p].pc = "done"]
    /\ UNCHANGED <<runVars, textVars, env, helperVars, writer>>

TwoNext ==
    \E p \in Instances :
        \/ T_start(p)
        \/ T_process_single(p)
        \/ T_mark_complete(p)
        \/ T_save_progress(p)
        \/ T_finish(p)

TwoSpec == TwoInit /\ [][TwoNext]_vars

\* ------------------------------------------------------ the entry points
\* What an invocation can find: the API key set or not, the batch file there
\* or not, and (Meshy only) --dry-run given or not.
Envs(t) ==
    IF t = "eleven" THEN {EnvOk}
    ELSE {e \in [key : BOOLEAN, catalog : BOOLEAN, dry_run : BOOLEAN] :
             e.dry_run => t = "meshy"}

\* The first invocation, on an output directory that is empty or holds a
\* progress file that is not a complete document.
MainInit ==
    /\ tool \in {"blockade", "meshy", "eleven"}
    /\ pc = "off"
    /\ run = 0
    /\ start_from = None
    /\ parallel = 1
    /\ completed = {}
    /\ failed = <<>>
    /\ remaining = <<>>
    /\ i = 1
    /\ disk \in {NoFile, Truncated}
    /\ files = NoFiles
    /\ now = 0
    /\ start_time = 0
    /\ began = 0
    /\ success_count = 0
    /\ fail_count = 0
    /\ status = "pending"
    /\ err = "none"
    /\ lastStatus = "none"
    /\ log = <<>>
    /\ submitted = <<>>
    /\ outcome = NoOutcome
    /\ faulty = {}
    /\ inflight = {}
    /\ calls = {}
    /\ startCompleted = {}
    /\ prevEnd = "none"
    /\ prevOutcome = NoOutcome
    /\ prevFiles = NoFiles
    /\ TextOff
    /\ TwoOff
    /\ env \in Envs(tool)
    /\ HelperOff

\* main (Blockade) returns before process_all: the API key is not set, or
\* the BatchProcessor was created and the batch file is not there.
B_main_return ==
    /\ tool = "blockade"
    /\ pc \in Stopped
    /\ run < MaxRuns
    /\ B_main(env, disk) = "return"
    /\ NewRun(HowEnded)
    /\ pc' = "returned"
    /\ completed' = IF env.key THEN B_load_progress(disk) ELSE {}
    /\ remaining' = <<>>
    /\ failed' = <<>>
    /\ startCompleted' = DiskCompleted(disk)
    /\ UNCHANGED <<tool, start_from, parallel, sideVars, status, disk, files>>

\* main (Meshy) does not get to the BatchProcessor: parse_batch_file raises,
\* or --dry-run is given, or the API key is not set.
M_main_exit ==
    /\ tool = "meshy"
    /\ pc \in Stopped
    /\ run < MaxRuns
    /\ M_main(env) # "process"
    /\ NewRun(HowEnded)
    /\ pc' = CASE M_main(env) = "raise" -> "crashed"
               [] M_main(env) = "list" -> "list"
               [] OTHER -> "returned"
    /\ completed' = {}
    /\ remaining' = <<>>
    /\ failed' = <<>>
    /\ status' = "pending"
    /\ startCompleted' = DiskCompleted(disk)
    /\ UNCHANGED <<tool, start_from, parallel, sideVars, disk, files>>

\* The dry run of main: the parsed prompts are printed and main returns.
M_dry_run ==
    /\ tool = "meshy"
    /\ pc = "list"
    /\ log' = Append(log, "list")
    /\ pc' = "returned"
    /\ UNCHANGED <<cfgVars, memVars, disk, files, now, start_time, began, countVars,
                   status, err, lastStatus, submitted, outcome, faulty, inflight, calls,
                   prevVars>>

\* The exit status of the process: main is called at the end of the script,
\* the status is 0 when it returns and 1 when an exception leaves it.
ExitCode ==
    CASE pc \in {"done", "returned"} -> 0
      [] pc = "crashed" -> 1

MainNext ==
    \/ RunNext
    \/ B_main_return
    \/ M_main_exit
    \/ M_dry_run

MainSpec == MainInit /\ [][MainNext]_vars

\* ------------------------------------------------- Mixamo API downloader
\* The `timeout` argument of MixamoAPI._wait_and_download, in ticks.
MixamoTimeout == 4
\* time.sleep(2) of the polling loop; the `delay` argument of process_all.
MixamoPollSleep == 2
MixamoDelay == 2

\* What one GET of the export job can bring: an exception, a response that is
\* not 200, a 200 with a status that is neither completed nor failed, a
\* completed without a result url, a completed with one, a failed.
X_PollResults == {"raise", "non200", "pending", "no_url", "completed", "failed"}
\* What the GET of the file can bring: a 200 written to the file, another
\* status, an exception while the file is being written.
X_FileResults == {"ok", "non200", "raise"}

MixamoInit ==
    /\ tool = "mixamo"
    /\ pc = "off"
    /\ RunOff
    /\ SideOff

\* main -> BatchDownloader.__init__ (_load_progress, self.failed = []) ->
\* process_all up to the loop.
X_start ==
    /\ tool = "mixamo"
    /\ pc \in Stopped
    /\ run < MaxRuns
    /\ NewRun(HowEnded)
    /\ IF LoadRaises(disk)
       THEN /\ pc' = "crashed"
            /\ completed' = {}
            /\ remaining' = <<>>
       ELSE /\ pc' = "loop"
            /\ completed' = B_load_progress(disk)
            /\ remaining' = NotCompleted(Catalog, B_load_progress(disk))
    /\ failed' = <<>>
    /\ status' = "pending"
    /\ startCompleted' = DiskCompleted(disk)
    /\ UNCHANGED <<tool, start_from, parallel, sideVars, disk, files>>

\* The for loop of process_all and the entry of process_animation; after the
\* loop, the open(progress_file, "w") of the final _save_progress.
X_process_all_loop ==
    /\ tool = "mixamo"
    /\ pc = "loop"
    /\ IF i > Len(remaining)
       THEN /\ \E r \in WriteResults :
                  IF r = "ok"
                  THEN /\ pc' = "final_dump"
                       /\ disk' = E_OpenForWrite(disk)
                  ELSE /\ pc' = "crashed"
                       /\ disk' = disk
            /\ UNCHANGED <<err, log, success_count>>
       ELSE IF Cur \in completed
       THEN /\ pc' = "after"
            /\ success_count' = success_count + 1
            /\ UNCHANGED <<err, log, disk>>
       ELSE /\ pc' = "search"
            /\ err' = "none"
            /\ log' = <<>>
            /\ UNCHANGED <<success_count, disk>>
    /\ UNCHANGED <<cfgVars, memVars, prevVars, status, files, now, start_time, began,
                   lastStatus, fail_count, submitted, outcome, faulty, inflight, calls>>

\* api.search_animations: results, or none (an error of the search is caught
\* there and gives none), on which process_animation raises.
X_search_animations ==
    /\ tool = "mixamo"
    /\ pc = "search"
    /\ \E found \in BOOLEAN :
          /\ pc' = IF found THEN "export" ELSE "except"
          /\ err' = IF found THEN err ELSE "search"
          /\ faulty' = IF found THEN faulty ELSE faulty \cup {Cur}
    /\ calls' = calls \cup {"search"}
    /\ log' = Append(log, "search")
    /\ UNCHANGED <<cfgVars, memVars, prevVars, countVars, status, disk, files, now,
                   start_time, began, lastStatus, submitted, outcome, inflight>>

\* download_animation: the POST of the export; with a job id it enters
\* _wait_and_download (start_time = time.time(), taken after the POST has
\* answered: the clock of the model is read from there), without one it
\* returns False and process_animation raises.
X_download_animation ==
    /\ tool = "mixamo"
    /\ pc = "export"
    /\ \E job \in BOOLEAN :
          /\ pc' = IF job THEN "wait" ELSE "except"
          /\ err' = IF job THEN err ELSE "submit"
          /\ faulty' = IF job THEN faulty ELSE faulty \cup {Cur}
    /\ start_time' = WaitEntry(now)
    /\ began' = now
    /\ lastStatus' = "none"
    /\ calls' = calls \cup {"create"}
    /\ submitted' = Append(submitted, Cur)
    /\ log' = Append(log, "create")
    /\ UNCHANGED <<cfgVars, memVars, prevVars, countVars, status, disk, files, now,
                   outcome, inflight>>

\* The loop condition of _wait_and_download and the return False after it.
X_wait_and_download ==
    /\ tool = "mixamo"
    /\ pc = "wait"
    /\ IF InBudget(now, start_time, MixamoTimeout)
       THEN /\ pc' = "status"
            /\ UNCHANGED <<err, faulty>>
       ELSE /\ pc' = "except"
            /\ err' = "timeout"
            /\ faulty' = faulty \cup {Cur}
    /\ UNCHANGED <<cfgVars, memVars, prevVars, countVars, status, disk, files, now,
                   start_time, began, lastStatus, log, submitted, outcome, inflight, calls>>

\* Mutant of X_AfterPoll: an error of the poll ends the wait.
X_AfterPoll_ErrorEnds(r) ==
    CASE r = "completed" -> "download"
      [] r \in {"failed", "raise", "non200"} -> "except"
      [] OTHER -> "wait"

\* Mutant of X_AfterPoll: a completed job without a url counts as downloaded.
X_AfterPoll_NoUrlDone(r) ==
    CASE r = "completed" -> "download"
      [] r = "no_url" -> "mark"
      [] r = "failed" -> "except"
      [] OTHER -> "wait"

\* Where the loop body of _wait_and_download goes after one poll: into
\* _download_file, return False, or time.sleep(2) and the loop condition.
X_AfterPoll(r) ==
    CASE r = "completed" -> "download"
      [] r = "failed" -> "except"
      [] OTHER -> "wait"

\* One GET of the export job, taking l ticks, and what follows it in the loop
\* body.
X_poll ==
    /\ tool = "mixamo"
    /\ pc = "status"
    /\ \E l \in 0..MaxLatency, r \in X_PollResults :
          /\ pc' = X_AfterPoll(r)
          /\ now' = IF r \in {"completed", "failed"}
                    THEN Sleep(now, l)
                    ELSE Sleep(Sleep(now, l), MixamoPollSleep)
          /\ lastStatus' = r
          /\ err' = IF r = "failed" THEN "poll" ELSE err
          /\ faulty' = IF r = "failed" THEN faulty \cup {Cur} ELSE faulty
    /\ calls' = calls \cup {"status"}
    /\ log' = Noted(log, "status")
    /\ UNCHANGED <<cfgVars, memVars, prevVars, countVars, status, disk, files,
                   start_time, began, submitted, outcome, inflight>>

\* _download_file: True after the whole file is written, False otherwise.
X_download_file ==
    /\ tool = "mixamo"
    /\ pc = "download"
    /\ \E r \in X_FileResults :
          /\ pc' = IF r = "ok" THEN "mark" ELSE "except"
          /\ files' = CASE r = "ok" -> [files EXCEPT ![Cur] = "full"]
                        [] r = "raise" -> [files EXCEPT ![Cur] = "partial"]
                        [] OTHER -> files
          /\ log' = IF r = "ok" THEN Append(log, "download") ELSE log
          /\ err' = IF r = "ok" THEN err ELSE "download"
          /\ faulty' = IF r = "ok" THEN faulty ELSE faulty \cup {Cur}
    /\ calls' = calls \cup {"download"}
    /\ UNCHANGED <<cfgVars, memVars, prevVars, countVars, status, disk, now,
                   start_time, began, lastStatus, submitted, outcome, inflight>>

\* self.completed.add(id) and the open(progress_file, "w") of _save_progress,
\* inside the try of process_animation.
X_mark_complete ==
    /\ tool = "mixamo"
    /\ pc = "mark"
    /\ completed' = completed \cup {Cur}
    /\ \E r \in WriteResults :
          IF r = "ok"
          THEN /\ disk' = E_OpenForWrite(disk)
               /\ pc' = "dump"
               /\ UNCHANGED <<err, faulty>>
          ELSE /\ disk' = disk
               /\ pc' = "except"
               /\ err' = "save"
               /\ faulty' = faulty \cup {Cur}
    /\ UNCHANGED <<cfgVars, failed, remaining, i, prevVars, countVars, status,
                   files, now, start_time, began, lastStatus, log, submitted, outcome,
                   inflight, calls>>

\* json.dump of _save_progress, the return True of process_animation and the
\* success += 1 of process_all.
X_save_progress ==
    /\ tool = "mixamo"
    /\ pc = "dump"
    /\ \E r \in WriteResults :
          IF r = "ok"
          THEN /\ disk' = E_Document(completed, failed)
               /\ log' = Append(log, "save")
               /\ outcome' = [outcome EXCEPT ![Cur] = "ok"]
               /\ success_count' = success_count + 1
               /\ pc' = "after"
               /\ ItemOver
               /\ UNCHANGED <<err, faulty>>
          ELSE /\ disk' = disk
               /\ pc' = "except"
               /\ err' = "save"
               /\ faulty' = faulty \cup {Cur}
               /\ UNCHANGED <<log, outcome, success_count, now, start_time, began,
                              lastStatus>>
    /\ UNCHANGED <<cfgVars, memVars, prevVars, status, files, fail_count, submitted,
                   inflight, calls>>

\* The except clause of process_animation: self.failed.append, return
\* False; and the failed += 1 of process_all.
X_except ==
    /\ tool = "mixamo"
    /\ pc = "except"
    /\ failed' = Append(failed, Cur)
    /\ outcome' = [outcome EXCEPT ![Cur] = "failed"]
    /\ fail_count' = fail_count + 1
    /\ pc' = "after"
    /\ ItemOver
    /\ UNCHANGED <<cfgVars, completed, remaining, i, prevVars, status, disk, files,
                   success_count, err, log, submitted, faulty, inflight, calls>>

\* time.sleep(delay) after every item, then the next iteration.
X_delay ==
    /\ tool = "mixamo"
    /\ pc = "after"
    /\ now' = Sleep(now, MixamoDelay)
    /\ i' = i + 1
    /\ pc' = "loop"
    /\ UNCHANGED <<cfgVars, completed, failed, remaining, prevVars, countVars,
                   status, disk, files, start_time, began, lastStatus, err, log,
                   submitted, outcome, faulty, inflight, calls>>

\* json.dump of the final _save_progress of process_all.
X_final_save ==
    /\ tool = "mixamo"
    /\ pc = "final_dump"
    /\ \E r \in WriteResults :
          IF r = "ok"
          THEN /\ disk' = E_Document(completed, failed)
               /\ pc' = "done"
          ELSE /\ disk' = disk
               /\ pc' = "crashed"
    /\ UNCHANGED <<cfgVars, memVars, prevVars, countVars, status, files, now,
                   start_time, began, lastStatus, err, log, submitted, outcome, faulty,
                   inflight, calls>>

MixamoNext ==
    \/ X_start
    \/ X_process_all_loop
    \/ X_search_animations
    \/ X_download_animation
    \/ X_wait_and_download
    \/ X_poll
    \/ X_download_file
    \/ X_mark_complete
    \/ X_save_progress
    \/ X_except
    \/ X_delay
    \/ X_final_save

MixamoSpec == MixamoInit /\ [][MixamoNext]_vars

\* ------------------------------------------------ Midjourney prompt helper
\* The longest prompt list handed to display_batch, and the largest batch
\* size; the longest list of ids handed to mark_complete.
MaxPrompts == 2
MaxMark == 2

\* The ids of the prompts of a batch file, and of the --mark arguments.
PromptIds == Ids \cup {UnknownId}

\* x in s, for a list s.
In(x, s) == \E k \in 1..Len(s) : s[k] = x
\* s.remove(x): the list without the first x in it.
remove(s, x) ==
    LET k == CHOOSE j \in 1..Len(s) : s[j] = x /\ \A m \in 1..(j - 1) : s[m] # x
    IN  SubSeq(s, 1, k - 1) \o SubSeq(s, k + 1, Len(s))

\* load_progress: what the file holds, two empty lists when it is not there.
load_progress(file) == [completed |-> file.completed, in_progress |-> file.in_progress]
\* save_progress: the file after write_text.
save_progress(p) ==
    [kind |-> "json", completed |-> p.completed, in_progress |-> p.in_progress]

\* Mutant of mark_complete_id: the id stays in in_progress.
mark_complete_id_Kept(p, id) ==
    [completed |-> IF In(id, p.completed) THEN p.completed ELSE Append(p.completed, id),
     in_progress |-> p.in_progress]

\* The body of the loop of mark_complete for one id.
mark_complete_id(p, id) ==
    [completed |-> IF In(id, p.completed) THEN p.completed ELSE Append(p.completed, id),
     in_progress |-> IF In(id, p.in_progress) THEN remove(p.in_progress, id)
                     ELSE p.in_progress]

\* The loop of mark_complete over ids.
RECURSIVE mark_complete(_, _)
mark_complete(p, ids) ==
    IF ids = <<>> THEN p ELSE mark_complete(mark_complete_id(p, Head(ids)), Tail(ids))

\* The loop of mark_in_progress over ids.
RECURSIVE mark_in_progress(_, _)
mark_in_progress(p, ids) ==
    IF ids = <<>> THEN p
    ELSE mark_in_progress(
             [p EXCEPT !.in_progress = IF In(Head(ids), @) THEN @ ELSE Append(@, Head(ids))],
             Tail(ids))

\* start_idx of display_batch: the place of the first prompt with the id
\* start_from among the remaining ones, 0 without start_from or a match.
J_start_idx(rem, sf) ==
    IF sf # None /\ In(sf, rem)
    THEN (CHOOSE k \in 1..Len(rem) : rem[k] = sf /\ \A j \in 1..(k - 1) : rem[j] # sf) - 1
    ELSE 0

\* batch of display_batch: remaining[start_idx:start_idx + batch_size], the
\* prompts being given by their ids.
batch(prompts, p, batch_size, sf) ==
    LET rem == NotCompleted(prompts, Range(p.completed))
        k0 == J_start_idx(rem, sf)
        k1 == IF k0 + batch_size < Len(rem) THEN k0 + batch_size ELSE Len(rem)
    IN  SubSeq(rem, k0 + 1, k1)

\* How a write_text of the progress file can end: written, or the process
\* killed after the file was truncated.
J_WriteResults == {"ok", "killed"}
J_Truncated == [kind |-> "partial", completed |-> <<>>, in_progress |-> <<>>]

\* What a helper that runs no batch leaves alone: the variables of the
\* runners other than pc.
idleVars == <<tool, run, start_from, parallel, memVars, disk, files, now, start_time,
              began, countVars, status, err, lastStatus, log, submitted, outcome,
              faulty, inflight, calls, prevVars>>

\* The helper is installed and has not been used: no progress file.
MidjourneyInit ==
    /\ tool = "midjourney"
    /\ pc = "idle"
    /\ RunOff
    /\ SideOff

\* display_batch(prompts, batch_size, start_from): load_progress, the batch,
\* and unless it is empty mark_in_progress (load_progress, the loop,
\* save_progress).
display_batch ==
    /\ tool = "midjourney"
    /\ \E prompts \in SeqsUpTo(PromptIds, MaxPrompts), batch_size \in 0..MaxPrompts,
          sf \in PromptIds \cup {None}, w \in J_WriteResults :
          IF LoadRaises(progress)
          THEN /\ pc' = "crashed"
               /\ progress' = progress
          ELSE LET b == batch(prompts, load_progress(progress), batch_size, sf)
               IN  IF b = <<>>
                   THEN /\ pc' = "all_completed"
                        /\ progress' = progress
                   ELSE IF w = "ok"
                   THEN /\ pc' = "displayed"
                        /\ progress' = save_progress(mark_in_progress(load_progress(progress), b))
                   ELSE /\ pc' = "killed_mid"
                        /\ progress' = J_Truncated
    /\ UNCHANGED <<idleVars, textVars, twoVars, env, folder>>

\* mark_complete(ids): load_progress, the loop, save_progress.
Mark ==
    /\ tool = "midjourney"
    /\ \E ids \in SeqsUpTo(PromptIds, MaxMark) \ {<<>>}, w \in J_WriteResults :
          IF LoadRaises(progress)
          THEN /\ pc' = "crashed"
               /\ progress' = progress
          ELSE IF w = "ok"
          THEN /\ pc' = "marked"
               /\ progress' = save_progress(mark_complete(load_progress(progress), ids))
          ELSE /\ pc' = "killed_mid"
               /\ progress' = J_Truncated
    /\ UNCHANGED <<idleVars, textVars, twoVars, env, folder>>

MidjourneyNext == display_batch \/ Mark

MidjourneySpec == MidjourneyInit /\ [][MidjourneyNext]_vars

\* ------------------------------------------------------ Suno track renamer
\* The number of entries of TRACK_NAMES taken into the model.
NTracks == 2
Tracks == 1..NTracks

\* The three names rename_tracks looks at for one track: MUSxx.mp3,
\* MUSxx.MP3 and the full name.  A name holds no file ("none") or a file,
\* which is told by the name it had at first.
TrackFiles ==
    [lower : {"none", "lower"}, upper : {"none", "upper"}, full : {"none", "full"}]

\* Mutant of rename_track: the full name is not looked at.
rename_track_Overwrite(f) ==
    LET short == IF f.lower # "none" THEN "lower" ELSE "upper"
    IN  IF f[short] # "none"
        THEN [f EXCEPT !.full = f[short], ![short] = "none"]
        ELSE f

\* The body of the loop of rename_tracks for one track, on the files of its
\* three names: short_path is MUSxx.mp3, or MUSxx.MP3 if that does not exist;
\* if short_path exists and the full name does not, short_path.rename.
rename_track(f) ==
    LET short == IF f.lower # "none" THEN "lower" ELSE "upper"
    IN  IF f[short] # "none"
        THEN IF f.full # "none"
             THEN f
             ELSE [f EXCEPT !.full = f[short], ![short] = "none"]
        ELSE f

\* rename_tracks(input_dir): nothing if the directory does not exist.
rename_tracks(d) ==
    IF ~d.exists THEN d
    ELSE [d EXCEPT !.files = [t \in Tracks |-> rename_track(d.files[t])]]

\* rename_tracks is about to run on a directory that is not there, or on one
\* with any of the three files of each track.
SunoInit ==
    /\ tool = "suno"
    /\ pc = "rename"
    /\ RunOff
    /\ TextOff
    /\ TwoOff
    /\ EnvOff
    /\ progress = NoProgress
    /\ folder \in {NoFolder} \cup {[exists |-> TRUE, files |-> fs] : fs \in [Tracks -> TrackFiles]}

\* One run of the script, the first or the second on the directory.
Rename ==
    /\ tool = "suno"
    /\ pc \in {"rename", "renamed"}
    /\ folder' = rename_tracks(folder)
    /\ pc' = IF pc = "rename" THEN "renamed" ELSE "renamed_again"
    /\ UNCHANGED <<idleVars, textVars, twoVars, env, progress>>

SunoSpec == SunoInit /\ [][Rename]_vars

\* ------------------------------------------------------------ properties
\* Ids are catalog positions: a list of ids is in catalog order when it is
\* strictly increasing.
InCatalogOrder(s) == \A j, k \in 1..Len(s) : j < k => s[j] < s[k]
PrevFailed == {x \in Ids : prevOutcome[x] = "failed"}
TimeoutOf == IF tool = "blockade" THEN BlockadeTimeout ELSE MeshyTimeout
IntervalOf == IF tool = "blockade" THEN BlockadePollInterval ELSE MeshyPollSleep
Polling == tool \in {"blockade", "meshy"}

C3_Claim ==
    (tool = "blockade" /\ pc = "killed_mid")
        => /\ Cur \notin DiskCompleted(disk)
           /\ (startCompleted \cup {x \in Ids : outcome[x] = "ok"})
                  \subseteq DiskCompleted(disk)

\* C4: in the Blockade and Meshy runners a failed item never aborts the
\* batch: the process stops abnormally only before the first item, the items
\* are submitted in catalog order, an item fails only if one of its provider
\* or file steps failed, and a finished run has an outcome for every
\* remaining item, with every item whose steps all succeeded completed.
C4_FailureIsolation ==
    Polling
        => /\ pc = "crashed" => (faulty = {} /\ submitted = <<>>)
           /\ InCatalogOrder(submitted)
           /\ \A x \in Ids : outcome[x] = "failed" => x \in faulty
           /\ pc = "done" =>
                  /\ {x \in Ids : outcome[x] # "none"} = Range(remaining)
                  /\ Range(remaining) \ faulty \subseteq completed

\* A run has finished in which an item failed and a later item was completed.
C4_Witness ==
    /\ Polling
    /\ pc = "done"
    /\ \E x, y \in Ids :
          /\ x < y
          /\ outcome[x] = "failed"
          /\ outcome[y] = "ok"
          /\ y \in completed

\* C5: in the Blockade and ElevenLabs runners, once an item has its outcome
\* and before the next item is started, progress.json records that outcome:
\* the id is in its completed list after a success, in its failed list after
\* a failure.
C5_Claim ==
    (tool \in {"blockade", "eleven"} /\ pc = "after")
        => /\ outcome[Cur] = "ok" => Cur \in DiskCompleted(disk)
           /\ outcome[Cur] = "failed" => Cur \in DiskFailed(disk)

\* C6: an uninterrupted Blockade run without start_from submits exactly the
\* catalog items whose id is not in the completed list of progress.json at
\* startup, and never an item whose id is recorded completed.
C6_SubmitsNotCompleted ==
    (tool = "blockade" /\ start_from = None)
        => /\ Range(submitted) \cap startCompleted = {}
           /\ pc = "done" =>
                  submitted = SelectSeq(Catalog,
                                        LAMBDA x : x \notin startCompleted)

\* A Blockade run that started with a completed id on disk has finished and
\* has submitted another item.
C6_Witness ==
    /\ tool = "blockade"
    /\ start_from = None
    /\ pc = "done"
    /\ startCompleted # {}
    /\ submitted # <<>>

\* C7: within one item of the Blockade runner, create_skybox comes first,
\* status polls follow it, the download follows a status poll, the write of
\* the id to progress.json follows the download; and an id is in the
\* completed list on disk only if its artifact was downloaded completely.
C7_OperationOrder ==
    tool = "blockade"
        => /\ \A k \in 1..Len(log) :
                  /\ log[k] = "create" => k = 1
                  /\ log[k] = "status" => k > 1 /\ log[k - 1] = "create"
                  /\ log[k] = "download" => k > 1 /\ log[k - 1] = "status"
                  /\ log[k] = "save" => k > 1 /\ log[k - 1] = "download"
           /\ \A x \in DiskCompleted(disk) : files[x] = "full"

\* A Blockade item was submitted, polled, downloaded and saved.
C7_Witness ==
    /\ tool = "blockade"
    /\ pc = "after"
    /\ log = <<"create", "status", "download", "save">>
    /\ Cur \in DiskCompleted(disk)

C10_Terminates == (Polling /\ pc = "loop") ~> (pc = "done")

\* A run has reached its summary after its last item timed out.
C10_Witness ==
    /\ Polling
    /\ pc = "done"
    /\ err = "timeout"

\* C11: in the Blockade and Meshy runners a status request that raises does
\* not fail the item: the item is failed for poll errors only when its
\* timeout budget is used up.
C11_Claim ==
    (Polling /\ pc = "except" /\ err = "poll_error")
        => now - began >= TimeoutOf

\* The statuses after which wait_for_completion returns or reports the
\* provider's failure.
TerminalStatuses == {"complete", "error", "abort", "SUCCEEDED", "FAILED"}

\* C12: once a status request of a job has answered with a terminal status,
\* wait_for_completion is over for that job: the runner is never again at
\* the loop test or at a status request of that job.
C12_NoPollAfterTerminal ==
    Polling
        => /\ pc \in {"wait", "status"} => lastStatus \notin TerminalStatuses
           /\ lastStatus \in TerminalStatuses =>
                  pc \in {"download", "write", "mark", "dump", "except"}
           /\ lastStatus \in {"complete", "SUCCEEDED"} => err # "poll"
           /\ lastStatus \in {"error", "abort", "FAILED"} =>
                  (pc = "except" /\ err = "poll")

\* A job has answered with a terminal status after at least one round of
\* polling and sleeping.
C12_Witness ==
    /\ Polling
    /\ lastStatus \in TerminalStatuses
    /\ pc \in {"download", "except"}
    /\ now - began >= IntervalOf

\* C13 as stated: over all runs of the Blockade runner on one output
\* directory, interrupted runs included, an artifact that has been downloaded
\* and written is never downloaded and written again.
C13_Original ==
    [][tool = "blockade" =>
          \A x \in Ids : files[x] = "full" => files'[x] = "full"]_vars

\* C13 amended: the Blockade runner downloads and writes an artifact at most
\* once per run, and never while its id is in the completed list of
\* progress.json: an artifact is written again only by a later run than the
\* one that wrote it, for the item that run is processing, whose id is not
\* in the completed list on disk.
C13_Amended ==
    [][tool = "blockade" =>
          \A x \in Ids :
              (files[x] = "full" /\ files'[x] # "full")
                  => /\ pc = "download"
                     /\ x = Cur
                     /\ prevFiles[x] = "full"
                     /\ x \notin DiskCompleted(disk)
                     /\ x \notin startCompleted]_vars

\* A Blockade run is downloading again the artifact that an earlier run
\* wrote without saving its id, next to an artifact whose id is saved.
C13_Witness ==
    /\ tool = "blockade"
    /\ pc = "write"
    /\ prevFiles[Cur] = "full"
    /\ files[Cur] = "partial"
    /\ \E x \in DiskCompleted(disk) : files[x] = "full"

\* C14: in the Blockade and Meshy runners every id in the completed list of
\* progress.json, and every id in the completed set in memory, has its
\* artifact file in the output directory.
C14_CompletedHasFile ==
    Polling
        => /\ \A x \in DiskCompleted(disk) : files[x] # "none"
           /\ \A x \in completed : files[x] # "none"

\* A Meshy run has finished with every id recorded completed, one of them
\* for a file that an earlier run left behind.
C14_Witness ==
    /\ tool = "meshy"
    /\ pc = "done"
    /\ DiskCompleted(disk) = Ids
    /\ \E x \in Ids : files[x] = "partial"

\* C15: every progress.json the Meshy runner has saved gives an id one
\* status: no id is in both its completed and its failed list, and no id is
\* twice in its failed list.
C15_Claim ==
    (tool = "meshy" /\ disk.kind = "json")
        => /\ DiskCompleted(disk) \cap DiskFailed(disk) = {}
           /\ \A j, k \in 1..Len(disk.failed) :
                  disk.failed[j] = disk.failed[k] => j = k

\* C16: the Blockade and Meshy runners write progress.json atomically: when
\* no process is running, also after an interrupt during a save, the file is
\* absent (never written yet) or a complete document, never empty or partial.
C16_Claim ==
    (Polling /\ pc \in Stopped) => disk.kind \in {"absent", "json"}

\* C17: a Blockade or Meshy run that finds a well-formed progress.json
\* lacking one of its keys takes the missing key as empty and goes on: the
\* run stops with an error at startup only on a file that is not a complete
\* document, and it enters its loop with the completed list of the file,
\* empty when the key is missing.
C17_Claim ==
    Polling
        => /\ pc = "crashed" => disk.kind = "partial"
           /\ (pc = "loop" /\ i = 1 /\ run = 1) =>
                  completed = (IF "completed" \in disk.keys THEN disk.completed
                                                           ELSE {})

\* C18: a Blockade or Meshy run that finds a progress.json that does not
\* parse aborts before it submits anything and leaves the file and the
\* artifacts as they are; a run aborts at startup only in that case, with no
\* provider call made.
C18_CorruptAborts ==
    [][Polling =>
          /\ (pc \in Stopped /\ disk.kind = "partial")
                 => /\ pc' = "crashed"
                    /\ disk' = disk
                    /\ files' = files
                    /\ submitted' = <<>>
                    /\ calls' = {}
          /\ pc = "crashed"
                 => (disk.kind = "partial" /\ submitted = <<>> /\ calls = {})]_vars

\* A run has aborted on the progress file that an interrupted save of an
\* earlier run left incomplete.
C18_Witness ==
    /\ Polling
    /\ pc = "crashed"
    /\ prevEnd = "mid"
    /\ disk.kind = "partial"
    /\ \E x \in Ids : files[x] = "full"

\* The catalog items at or after the entry with id x that are not in comp.
FromOnward(x, comp) == SelectSeq(Catalog, LAMBDA y : y >= x /\ y \notin comp)

\* C19: a Blockade run with start_from = X, X the id of an item that is not
\* completed yet, processes the not-yet-completed catalog items from X
\* onward, in catalog order; the not-yet-completed items before X are neither
\* submitted nor counted.
C19_StartFrom ==
    (tool = "blockade" /\ start_from \in Ids \ startCompleted
                       /\ (Running \/ pc = "done"))
        => /\ remaining = FromOnward(start_from, startCompleted)
           /\ \A k \in 1..Len(submitted) :
                  submitted[k] >= start_from /\ submitted[k] \notin startCompleted
           /\ InCatalogOrder(submitted)
           /\ \A x \in Ids : x < start_from => outcome[x] = "none"
           /\ pc = "done" =>
                  /\ submitted = FromOnward(start_from, startCompleted)
                  /\ success_count + fail_count = Len(submitted)

\* A Blockade run with start_from at the second catalog entry has finished:
\* the first entry, not completed, was left out.
C19_Witness ==
    /\ tool = "blockade"
    /\ start_from = 2
    /\ pc = "done"
    /\ 1 \notin startCompleted
    /\ outcome[1] = "none"
    /\ submitted # <<>>
    /\ submitted[1] = 2

\* C20: the runners sleep their inter-item delay only between two items:
\* no delay is slept after the last item of the run (Blockade and ElevenLabs
\* sleep it in process_all, Meshy at the end of process_model).
C20_Claim ==
    [][(pc \in {"after", "sleep"} /\ now' > now) => i < Len(remaining)]_vars

\* C21: when the Meshy runner reaches an item whose output file exists, it
\* makes no provider call for it and leaves the file as it is; the item goes
\* to the completed set and, with the save that follows, into the completed
\* list of progress.json.
C21_ExistsSkip ==
    [][tool = "meshy" =>
          /\ (pc = "loop" /\ i <= Len(remaining) /\ files[Cur] # "none"
                           /\ pc' \notin Stopped)
                 => /\ pc' = "record"
                    /\ status' = "completed"
                    /\ log' = <<>>
                    /\ <<calls, submitted, inflight, files>>' =
                           <<calls, submitted, inflight, files>>
          /\ (pc = "record" /\ log = <<>> /\ pc' \notin Stopped)
                 => /\ Cur \in completed'
                    /\ <<calls, submitted, inflight, files>>' =
                           <<calls, submitted, inflight, files>>
          /\ (pc = "dump" /\ log = <<>> /\ pc' \notin Stopped)
                 => /\ Cur \in DiskCompleted(disk')
                    /\ files' = files
                    /\ files[Cur] = prevFiles[Cur]
                    /\ Cur \notin Range(submitted')]_vars

\* The Meshy runner has recorded as completed, without a provider call, an
\* item whose file an earlier run left behind.
C21_Witness ==
    /\ tool = "meshy"
    /\ pc = "loop"
    /\ i > 1
    /\ log = <<"save">>
    /\ submitted = <<>>
    /\ remaining[i - 1] \in DiskCompleted(disk)
    /\ files[remaining[i - 1]] # "none"

\* A line lies inside a fenced block when an odd number of fence lines
\* precede it; a document is unambiguous when no header lies inside one.
InFence(d, k) == Cardinality({j \in 1..(k - 1) : d[j] = "F"}) % 2 = 1
Unambiguous(d) == \A k \in DOMAIN d : d[k] \in HeaderLines => ~InFence(d, k)
\* The number of the nearest line of the given kind before line k, 0 if none.
NearestBefore(d, kind, k) ==
    LET before == {j \in 1..(k - 1) : d[j] = kind}
    IN  IF before = {} THEN 0 ELSE CHOOSE j \in before : \A m \in before : m <= j

\* C22: parse_batch_file (Meshy and Midjourney) returns the items in document
\* order, and each item carries the section and the category of the nearest
\* section header and the nearest category header before its entry header.
\* Stated for the documents in which no header lies inside a fenced block.
C22_Claim ==
    (pc = "parsed" /\ Unambiguous(doc)) =>
        /\ \A a, b \in DOMAIN parsed : a < b => parsed[a].id < parsed[b].id
        /\ \A a \in DOMAIN parsed :
              /\ parsed[a].section = NearestBefore(doc, "S", parsed[a].id)
              /\ parsed[a].category = NearestBefore(doc, "C", parsed[a].id)

\* The entry header of line k is followed by another entry header or by a
\* section header before any fence line.
Fenceless(d, k) ==
    /\ d[k] = "E"
    /\ \E j \in (k + 1)..Len(d) :
          /\ d[j] \in {"E", "S"}
          /\ \A m \in (k + 1)..(j - 1) : d[m] # "F"

\* C23: an entry header followed by another entry header or a section header
\* before any fence line yields no item, and the document is parsed as it
\* would be with a line of plain text in the place of that entry header.
\* Stated for the documents in which no header lies inside a fenced block.
C23_Claim ==
    (pc = "parsed" /\ Unambiguous(doc)) =>
        \A k \in DOMAIN doc :
            Fenceless(doc, k) =>
                /\ \A a \in DOMAIN parsed : parsed[a].id # k
                /\ parsed = parse_batch_file(tool, [doc EXCEPT ![k] = "x"])

\* The block of the entry header of line k: the lines after the first fence
\* line after k, up to the next fence line or the end of the document.
BlockOf(d, k) ==
    LET f == CHOOSE j \in (k + 1)..Len(d) :
                 d[j] = "F" /\ \A m \in (k + 1)..(j - 1) : d[m] # "F"
        ends == {j \in (f + 1)..Len(d) : d[j] = "F"}
        g == IF ends = {} THEN Len(d) + 1
             ELSE CHOOSE j \in ends : \A m \in ends : j <= m
    IN  SubSeq(d, f + 1, g - 1)
\* The lines joined with newlines.
RECURSIVE NewlineJoined(_)
NewlineJoined(lines) ==
    IF lines = <<>> THEN <<>>
    ELSE LET n == Len(lines)
         IN  NewlineJoined(SubSeq(lines, 1, n - 1))
                 \o (IF n > 1 THEN <<"\n">> ELSE <<>>) \o Text(lines[n])
\* The text from its first to its last character that is not white space.
Trimmed(s) ==
    LET ink == {j \in DOMAIN s : s[j] \notin {" ", "\n"}}
    IN  IF ink = {} THEN <<>>
        ELSE SubSeq(s, CHOOSE j \in ink : \A m \in ink : j <= m,
                       CHOOSE j \in ink : \A m \in ink : m <= j)
NamesStyle(s) == \E j \in DOMAIN s : s[j] \in {"l", "L"}

\* C24 as stated: the payload of every item the Meshy parser returns is the
\* lines of its block joined with newlines and trimmed, nothing added.
C24_Original ==
    (pc = "parsed" /\ tool = "meshy") =>
        \A a \in DOMAIN parsed :
            parsed[a].prompt = Trimmed(NewlineJoined(BlockOf(doc, parsed[a].id)))

\* C24 (amended): the payload of every item the Meshy parser returns is the
\* lines of its block joined with newlines and trimmed, followed by the
\* global style unless the trimmed text names the style in either case.
C24_Amended ==
    (pc = "parsed" /\ tool = "meshy") =>
        \A a \in DOMAIN parsed :
            LET t == Trimmed(NewlineJoined(BlockOf(doc, parsed[a].id)))
            IN  parsed[a].prompt = IF NamesStyle(t) THEN t ELSE t \o GLOBAL_STYLE

\* The Meshy parser has returned an item whose block began with a padded
\* line and ended with an empty one, and whose text did not name the style.
C24_Witness ==
    /\ pc = "parsed"
    /\ tool = "meshy"
    /\ doc = <<"E", "F", "pad", "x", "", "F">>
    /\ Len(parsed) = 1
    /\ parsed[1].prompt = <<"x", " ", "\n", "x">> \o GLOBAL_STYLE

\* The name with every space turned into an underscore and every character
\* other than a letter, a digit, an underscore or a hyphen removed.
StemChar(c) == c \in {"a", "1", "_", "-"}
Sanitized(nm) == SelectSeq([j \in DOMAIN nm |-> IF nm[j] = " " THEN "_" ELSE nm[j]], StemChar)

\* C25: the file stem is the id, an underscore and the sanitized name, which
\* contains only letters, digits, underscores and hyphens: every space of
\* the name has become an underscore, every other character outside that set
\* has been removed.
C25_Claim ==
    pc = "named" =>
        LET stem == IF tool = "midjourney" THEN SubSeq(filename, 1, Len(filename) - 1)
                    ELSE filename
        IN  /\ stem = <<"F01", "_">> \o Sanitized(name)
            /\ \A j \in 3..Len(stem) : StemChar(stem[j])

\* C28: with one runner per output directory the completed list on disk only
\* grows over any sequence of runs: whenever the process has stopped, every
\* id that was in the list of progress.json when the run started is in it.
C28_Claim ==
    (tool \in {"blockade", "eleven", "meshy"} /\ pc \in Stopped)
        => startCompleted \subseteq DiskCompleted(disk)

\* C30: a Meshy run with start_from = X processes exactly the catalog items
\* at or after X that are not completed, X being looked for in the whole
\* catalog, completed or not; when X is the id of no catalog item the run
\* processes nothing and never writes progress.json.
C30_StartFrom ==
    [][(tool = "meshy" /\ start_from # None) =>
          /\ (Running' \/ pc' = "done") =>
                /\ remaining' = FromOnward(start_from, startCompleted')
                /\ \A k \in 1..Len(submitted') : submitted'[k] \in Range(remaining')
                /\ InCatalogOrder(submitted')
                /\ pc' = "done" =>
                      {x \in Ids : outcome'[x] # "none"} = Range(remaining')
          /\ start_from \notin Ids =>
                /\ disk' = disk
                /\ submitted' = <<>>
                /\ calls' = {}]_vars

\* A Meshy run with start_from at the first catalog item, which an earlier
\* run completed, has finished after processing the second item.
C30_Witness ==
    /\ tool = "meshy"
    /\ start_from = 1
    /\ 1 \in startCompleted
    /\ pc = "done"
    /\ submitted # <<>>
    /\ submitted[1] = 2

\* C29: two Blockade instances running at once on one output directory each
\* save their own set, the ids loaded at their start and the ids they
\* completed themselves: the file an instance wrote last holds exactly that
\* set, so an id the other instance saved in between is lost.
C29_OwnSetSaved ==
    \A p \in DOMAIN procs :
        /\ procs[p].completed = procs[p].loaded \cup procs[p].own
        /\ (writer = p /\ disk.kind = "json")
               => DiskCompleted(disk) = procs[p].loaded \cup procs[p].own

\* The lost update: an instance has finished, an id it completed and saved
\* is not in progress.json, which the other instance wrote after it.
C29_Witness ==
    \E p \in DOMAIN procs :
        /\ procs[p].pc = "done"
        /\ writer # p
        /\ disk.kind = "json"
        /\ \E x \in procs[p].own : x \notin DiskCompleted(disk)

\* The configuration errors: the batch file is missing, or the API key is
\* missing in a run that needs it.
ConfigError == ~env.catalog \/ (~env.key /\ ~env.dry_run)

\* C26: the exit code of the Blockade and Meshy entry points is 0 when the
\* run completes, whatever items failed, and is non-zero exactly when there
\* is a configuration error (missing API key or missing batch file).
C26_Claim ==
    (tool \in {"blockade", "meshy"} /\ pc \in {"done", "returned", "crashed"})
        => /\ pc = "done" => ExitCode = 0
           /\ ExitCode # 0 <=> ConfigError

\* C27: a Meshy run with --dry-run lists the parsed catalog and returns,
\* with or without an API key: it makes no provider call, submits nothing,
\* loads no progress, and leaves progress.json and the output files as they
\* are, also when progress.json could not be read.
C27_DryRun ==
    [][(tool = "meshy" /\ env.dry_run) =>
          /\ disk' = disk
          /\ files' = files
          /\ calls' = {}
          /\ submitted' = <<>>
          /\ completed' = {}
          /\ (env.catalog /\ pc' \in Stopped) => (pc' = "returned" /\ log' = <<"list">>)]_vars

\* A Meshy dry run without an API key, on a directory whose progress.json
\* is not a complete document, has listed the catalog and returned.
C27_Witness ==
    /\ tool = "meshy"
    /\ env.dry_run
    /\ ~env.key
    /\ env.catalog
    /\ disk = Truncated
    /\ pc = "returned"
    /\ log = <<"list">>

\* C31: a Blockade run with start_from = X, X the id of no item that is still
\* to be completed (an unknown id, or the id of a completed item), is not
\* filtered: it processes every not-yet-completed item, from the beginning of
\* the catalog.
C31_NoEffect ==
    (tool = "blockade" /\ start_from # None /\ start_from \notin Ids \ startCompleted
                       /\ (Running \/ pc = "done"))
        => /\ remaining = NotCompleted(Catalog, startCompleted)
           /\ \A k \in 1..Len(submitted) : submitted[k] = remaining[k]
           /\ pc = "done" =>
                  /\ submitted = NotCompleted(Catalog, startCompleted)
                  /\ success_count + fail_count = Len(submitted)

\* A Blockade run with start_from at the second catalog item, completed by
\* an earlier run, has finished after processing the first item, which was
\* not completed.
C31_Witness ==
    /\ tool = "blockade"
    /\ start_from = 2
    /\ 2 \in startCompleted
    /\ 1 \notin startCompleted
    /\ pc = "done"
    /\ submitted # <<>>
    /\ submitted[1] = 1

\* C32: in every progress.json the ElevenLabs generator writes no id is both
\* in the completed list and in the failed list, and when process_all has
\* returned the failed list on disk holds exactly the items that failed in
\* that run, each once: the failures of earlier runs are not carried over.
C32_Claim ==
    (tool = "eleven" /\ disk.kind = "json")
        => /\ DiskCompleted(disk) \cap DiskFailed(disk) = {}
           /\ pc = "done" =>
                  /\ DiskFailed(disk) = {x \in Ids : outcome[x] = "failed"}
                  /\ \A j, k \in 1..Len(disk.failed) :
                         disk.failed[j] = disk.failed[k] => j = k


\* C33: in _wait_and_download of the Mixamo downloader a poll that raised or
\* answered with a status code other than 200 does not end the wait: the
\* loop sleeps 2 seconds and tests the loop condition again; at the loop
\* condition another poll follows while the elapsed time is below the
\* timeout, and otherwise the function returns False (the item fails with a
\* timeout, nothing having been downloaded for it in this wait).
C33_PollErrorRetried ==
    [][tool = "mixamo" =>
          /\ (pc = "status" /\ lastStatus' \in {"raise", "non200"})
                 => /\ pc' = "wait"
                    /\ now' >= now + MixamoPollSleep
                    /\ err' = err
                    /\ faulty' = faulty
          /\ (pc = "wait" /\ now - start_time < MixamoTimeout) => pc' = "status"
          /\ (pc = "wait" /\ now - start_time >= MixamoTimeout)
                 => /\ pc' = "except"
                    /\ err' = "timeout"
                    /\ "download" \notin Range(log)
          /\ (pc = "except" /\ err = "timeout")
                 => /\ outcome'[Cur] = "failed"
                    /\ Cur \notin completed']_vars

\* The wait of an item ran into its timeout after a poll that raised or was
\* not a 200.
C33_Witness ==
    /\ tool = "mixamo"
    /\ pc = "except"
    /\ err = "timeout"
    /\ lastStatus \in {"raise", "non200"}
    /\ "status" \in Range(log)
    /\ now - start_time >= MixamoTimeout

\* C34: in the Mixamo downloader a poll that reports completed without a
\* result url leaves the runner polling (it ends only in the timeout); the
\* file download is entered only from a poll that carried a url, and an id
\* is added to the completed set of the run only after _download_file wrote
\* the whole file and returned True.
C34_UrlNeeded ==
    tool = "mixamo" =>
        /\ lastStatus = "no_url"
               => \/ pc \in {"wait", "status"}
                  \/ pc = "except" /\ err = "timeout"
        /\ pc = "download" => lastStatus = "completed"
        /\ pc \in {"mark", "dump"}
               => /\ lastStatus = "completed"
                  /\ files[Cur] = "full"
                  /\ "download" \in Range(log)
        /\ (Running /\ pc # "loop" /\ i <= Len(remaining) /\ Cur \in completed)
               => (files[Cur] = "full" /\ "download" \in Range(log))

\* A poll reported completed without a url, the loop slept, and the runner is
\* about to poll again.
C34_Witness ==
    /\ tool = "mixamo"
    /\ pc = "status"
    /\ lastStatus = "no_url"
    /\ now - start_time >= MixamoPollSleep


\* The number of the first fence line after line k, 0 if there is none.
OpeningOf(d, k) ==
    LET fences == {j \in (k + 1)..Len(d) : d[j] = "F"}
    IN  IF fences = {} THEN 0 ELSE CHOOSE j \in fences : \A m \in fences : j <= m
\* The number of the fence line that closes the block opened after line k:
\* Len(d) + 1 if the block is never closed, 0 if it is never opened.
ClosingOf(d, k) ==
    IF OpeningOf(d, k) = 0 THEN 0
    ELSE IF OpeningOf(d, OpeningOf(d, k)) = 0 THEN Len(d) + 1
    ELSE OpeningOf(d, OpeningOf(d, k))
\* Line k is an entry header whose opening fence line is never closed.
Unclosed(d, k) == d[k] = "E" /\ OpeningOf(d, k) # 0 /\ ClosingOf(d, k) = Len(d) + 1
\* The texts of the lines with a space between each two.
RECURSIVE SpaceJoined(_)
SpaceJoined(lines) ==
    IF lines = <<>> THEN <<>>
    ELSE LET n == Len(lines)
         IN  SpaceJoined(SubSeq(lines, 1, n - 1))
                 \o (IF n > 1 THEN <<" ">> ELSE <<>>) \o Text(lines[n])
\* The payload made of the given lines, as each parser builds payloads.
PayloadOf(t, lines) ==
    IF t = "meshy"
    THEN LET s == Trimmed(NewlineJoined(lines))
         IN  IF NamesStyle(s) THEN s ELSE s \o GLOBAL_STYLE
    ELSE Trimmed(SpaceJoined(lines))

NoRepeat(s) == \A j, k \in 1..Len(s) : s[j] = s[k] => j = k

\* C36: in the Midjourney helper, starting from no progress file, after any
\* sequence of display_batch and mark_complete operations the progress file,
\* when it holds the two lists, has no id in both completed and in_progress,
\* and neither list holds an id twice.
C36_ListsDisjoint ==
    (tool = "midjourney" /\ progress.kind = "json") =>
        /\ Range(progress.completed) \cap Range(progress.in_progress) = {}
        /\ NoRepeat(progress.completed)
        /\ NoRepeat(progress.in_progress)

\* mark_complete has just moved an id out of in_progress while another id
\* is still in progress.
C36_Witness ==
    /\ tool = "midjourney"
    /\ pc = "marked"
    /\ progress.kind = "json"
    /\ Len(progress.completed) >= 2
    /\ Len(progress.in_progress) >= 1


\* C37: a run of rename_tracks changes the files of a track only by moving
\* a short-name file to the full name when the full name holds no file; a
\* file under the full name is left as it is, with its content; and a second
\* run on the directory the first run left changes nothing.
C37_RenameOnce ==
    [][tool = "suno" =>
          /\ folder'.exists = folder.exists
          /\ folder.exists =>
                \A t \in Tracks :
                    LET f == folder.files[t]
                        g == folder'.files[t]
                    IN  /\ f.full # "none" => g = f
                        /\ g # f =>
                               /\ f.full = "none"
                               /\ \/ f.lower # "none" /\ g = [f EXCEPT !.full = f.lower, !.lower = "none"]
                                  \/ f.lower = "none" /\ f.upper # "none"
                                        /\ g = [f EXCEPT !.full = f.upper, !.upper = "none"]
          /\ pc = "renamed" => folder' = folder]_vars

\* After the second run: the first track had both short names and was
\* renamed from MUSxx.mp3, the second had its full name already and kept
\* both files.
C37_Witness ==
    /\ tool = "suno"
    /\ pc = "renamed_again"
    /\ folder.exists
    /\ folder.files[1] = [lower |-> "none", upper |-> "upper", full |-> "lower"]
    /\ folder.files[2] = [lower |-> "lower", upper |-> "none", full |-> "full"]

====
